---- MODULE Spec2Model ----
(***************************************************************************)
(* Combat and progression core of goose-adventure: the bullet collision    *)
(* phase (gun.rs), the pickup (food.rs), the gun (gun.rs, player.rs) and   *)
(* the curse-level reconciliation (level.rs), scheduled as Bevy schedules  *)
(* them: each frame runs the FixedUpdate chain some number of times and    *)
(* then every Update system once, in an order the scheduler is free to     *)
(* pick.  Commands (spawn, despawn) are deferred to the end of the         *)
(* schedule run that issued them.                                          *)
(*                                                                         *)
(* Lengths are world units, times are milliseconds, both integers.         *)
(***************************************************************************)
EXTENDS Integers, Sequences, FiniteSets, TLC

(***************************************************************************)
(* Bounds of the model.                                                    *)
(***************************************************************************)
\* Fixed timestep in ms (Time<Fixed>; the engine's default is 15.625 ms).
FixedDtMs == 250
\* A frame lasts 1..MaxTicksPerFrame fixed timesteps.
MaxTicksPerFrame == 1
\* Bullets alive or queued for spawning at any time.
MaxBullets == 2
\* The boss's health at spawn (1200 in boss.rs, scaled down to two hits).
BossHealth == 100

(***************************************************************************)
(* Program constants.                                                      *)
(***************************************************************************)
BulletDamage == 50
BulletLifetimeMs == 700
BulletSpeed == 1000
BulletSpawnDx == 40
BulletSpawnDy == 22
GunCooldownMs == 800
FastCooldownMs == 100
HoldToFireMs == 300
EatRange == 64
EnemyReward == 1
BossReward == 100
FastFireLevel == 2
EndLevel == 100
AabbScale == 16
\* MovementController defaults and apply_movement (movement.rs).
Gravity == 100
TerminalSpeed == 1500
GlideTenths == 3
JumpForce == 666
JumpBoost == 3
JumpTimeMs == 1000
\* Terrain correction thresholds (movement.rs handle_collisions).
SnapX == 8
SnapY == 24
\* Bombs and explosions (movement.rs, enemy.rs).
ExplosionRadius == 60
ExplosionDamage == 40
\* The player (player.rs, level.rs).
PlayerHealth == 100
PlayerSpeed == 400
\* Enemy AI (enemy.rs update_enemies).
RangeMin == 300
RangeMax == 500
AggroRange == 1500
EnemySpeed == 300
GarlicCooldownMs == 1200
GarlicSpeedFactor == 1111
GarlicLaunchVy == 1500
\* The boss (boss.rs).
BossGate == 8
BossSpeed == 500
BossRetargetMs == 1000
BossReach == 30
BossDropVy == 250

(***************************************************************************)
(* bevy Timer, as the code uses it: tick, just_finished, reset.            *)
(***************************************************************************)
TimerNew(ms, rep) ==
  [duration |-> ms, elapsed |-> 0, finished |-> FALSE,
   just_finished |-> FALSE, repeating |-> rep]

TimerTick(t, delta) ==
  IF ~t.repeating /\ t.finished
  THEN [t EXCEPT !.just_finished = FALSE]
  ELSE LET e == t.elapsed + delta
       IN IF e >= t.duration
          THEN [t EXCEPT !.elapsed = IF t.repeating THEN e % t.duration
                                     ELSE t.duration,
                         !.finished = TRUE, !.just_finished = TRUE]
          ELSE [t EXCEPT !.elapsed = e, !.finished = FALSE,
                         !.just_finished = FALSE]

TimerReset(t) ==
  [t EXCEPT !.elapsed = 0, !.finished = FALSE, !.just_finished = FALSE]

(***************************************************************************)
(* AABB (demo/aabb.rs): a centre and a half size; the depth of             *)
(* intersection is, per axis, the signed overlap of least magnitude that   *)
(* separates the boxes, and (0,0) unless they overlap on both axes.        *)
(***************************************************************************)
Abs(n) == IF n < 0 THEN -n ELSE n

Vec2Zero == [x |-> 0, y |-> 0]

AABBNew(cx, cy, sx, sy) ==
  [center |-> [x |-> cx, y |-> cy], half_size |-> [x |-> sx, y |-> sy]]

AxisDepth(ca, ha, cb, hb) ==
  LET d == ca - cb
      minDist == ha + hb
  IN IF Abs(d) >= minDist THEN 0
     ELSE IF d > 0 THEN minDist - d ELSE -minDist - d

GetIntersectionDepth(a, b) ==
  LET dx == AxisDepth(a.center.x, a.half_size.x, b.center.x, b.half_size.x)
      dy == AxisDepth(a.center.y, a.half_size.y, b.center.y, b.half_size.y)
  IN IF dx = 0 \/ dy = 0 THEN Vec2Zero ELSE [x |-> dx, y |-> dy]

(***************************************************************************)
(* The level (level.rs spawn_level), scaled down: the player stands at the *)
(* gun pickup, bullets fly right from it and are checked at x = 290 and    *)
(* x = 540 before their lifetime ends at x = 790.                          *)
(***************************************************************************)
EnemyIds == {1, 2}

\* Tenths of the Transform scale of each kind of entity.
BulletScale10 == 3
EnemyScale10 == 30
BossScale10 == 50
PlayerScale10 == 20
GarlicScale10 == 15

SizeOf(scale10) == (scale10 * AabbScale) \div 10

\* A Transform with a MovementController (movement.rs 58-73): position,
\* scale, and the controller's fields.  Speeds are in units per second and
\* jump_timer is in ms.
Mover(x, y, z, scale10, speed, horizontal, vy, facing_right) ==
  [x |-> x, y |-> y, z |-> z, scale10 |-> scale10, speed |-> speed,
   horizontal |-> horizontal, vx |-> 0, vy |-> vy, grounded |-> FALSE,
   jump_timer |-> 0, gliding |-> FALSE, facing_right |-> facing_right]

\* The player: a mover with the Player component's health.
PlayerAt(x, y, health) ==
  [x |-> x, y |-> y, z |-> 10, scale10 |-> PlayerScale10, speed |-> PlayerSpeed,
   horizontal |-> 0, vx |-> 0, vy |-> 0, grounded |-> FALSE,
   jump_timer |-> 0, gliding |-> FALSE, facing_right |-> TRUE,
   health |-> health]

PlayerInit == PlayerAt(0, 0, PlayerHealth)

GroundPlatform == AABBNew(0, -64, 2000, 32)
WallPlatform == AABBNew(290, 0, 16, 64)
\* A wall where a bullet is when its lifetime ends.
FarWallPlatform == AABBNew(790, 0, 16, 64)

\* A mushroom (enemy.rs 54-87): a mover with the Enemy component.
EnemyAt(x, y, health) ==
  [exists |-> TRUE, health |-> health,
   garlic_cooldown |-> TimerNew(GarlicCooldownMs, TRUE),
   x |-> x, y |-> y, z |-> 4, scale10 |-> EnemyScale10, speed |-> EnemySpeed,
   horizontal |-> 0, vx |-> 0, vy |-> 0, grounded |-> FALSE,
   jump_timer |-> 0, gliding |-> FALSE, facing_right |-> TRUE]

EnemyInit(farSecond) ==
  [e \in EnemyIds |->
     IF e = 1
     THEN EnemyAt(300, 16, 50)
     ELSE EnemyAt(IF farSecond THEN 540 ELSE 300, 16, 100)]

\* The boss (boss.rs 43-77): no MovementController, its own target and timer.
BossAt(x, y, health) ==
  [exists |-> TRUE, health |-> health, x |-> x, y |-> y, z |-> 3,
   target_x |-> x, move_cooldown |-> TimerNew(BossRetargetMs, TRUE),
   attacked |-> FALSE]

BossInit == BossAt(350, 48, BossHealth)

FoodInit ==
  { [id |-> 1, gives_gun |-> TRUE,  x |-> 50,  y |-> -12, z |-> 3],
    [id |-> 2, gives_gun |-> FALSE, x |-> -30, y |-> -12, z |-> 3],
    [id |-> 3, gives_gun |-> FALSE, x |-> 800, y |-> -12, z |-> 3] }

GunInit ==
  [shooting |-> FALSE, can_shoot |-> TRUE,
   shooting_cooldown |-> TimerNew(GunCooldownMs, TRUE), enabled |-> FALSE]

CurseLevelInit == [value |-> 0, needs_change |-> FALSE]

UpdateSystems == {"record_shooting_input", "shoot", "eat", "curse_level_change"}

VARIABLES
  curse_level,   \* the CurseLevel resource: value, needs_change
  gun,           \* the player's Gun component
  player,        \* the player's Transform and facing
  tier,          \* index of the grass image shown on every platform
  end_markers,   \* "THE END" texts spawned so far
  enemy,         \* EnemyIds -> Enemy component and Transform
  boss,          \* the Boss component and Transform
  bullets,       \* sequence of live Bullet entities
  platforms,     \* the static platform AABBs
  food,          \* Food entities present
  commands,      \* deferred Commands of the running schedule
  input,         \* this frame's decoded input
  time_delta,    \* this frame's Time::delta in ms
  pc,            \* position in the frame
  fixed_left,    \* FixedUpdate runs left in this frame
  todo,          \* Update systems that have not run in this frame
  snap,          \* the entities as they were when the running phase began
  hit_log,       \* what each bullet did in the last collision phase
  garlics,       \* sequence of live bombs (Garlic movers)
  explosions,    \* sequence of live Explosion entities
  app_exit,      \* AppExit messages written
  keys,          \* this frame's pressed movement keys
  frames         \* frames begun, where a specification bounds them

vars ==
  <<curse_level, gun, player, tier, end_markers, enemy, boss, bullets,
    platforms, food, commands, input, time_delta, pc, fixed_left, todo,
    snap, hit_log, garlics, explosions, app_exit, keys, frames>>

NoSnap == [taken |-> FALSE]

NoKeys == [left |-> FALSE, right |-> FALSE, space |-> FALSE]

Init ==
  /\ curse_level = CurseLevelInit
  /\ gun = GunInit
  /\ player = PlayerInit
  /\ tier = 0
  /\ end_markers = 0
  /\ \E farSecond \in BOOLEAN : enemy = EnemyInit(farSecond)
  /\ boss = BossInit
  /\ bullets = <<>>
  /\ \E wall \in BOOLEAN :
       platforms = IF wall THEN {GroundPlatform, WallPlatform}
                   ELSE {GroundPlatform, FarWallPlatform}
  /\ food = FoodInit
  /\ commands = <<>>
  /\ input = [key_e |-> FALSE, mouse |-> "up"]
  /\ time_delta = 0
  /\ pc = "frame"
  /\ fixed_left = 0
  /\ todo = {}
  /\ snap = NoSnap
  /\ hit_log = <<>>
  /\ garlics = <<>>
  /\ explosions = <<>>
  /\ app_exit = 0
  /\ keys = NoKeys
  /\ frames = 0

(***************************************************************************)
(* Helpers over sequences and entity queries.                              *)
(***************************************************************************)
\* Every order in which a query may hand out the entities of S.
Orders(S) ==
  {s \in [1..Cardinality(S) -> S] : \A i, j \in DOMAIN s : i # j => s[i] # s[j]}

RECURSIVE CountIn(_, _)
CountIn(seq, c) ==
  IF seq = <<>> THEN 0
  ELSE (IF Head(seq) = c THEN 1 ELSE 0) + CountIn(Tail(seq), c)

Despawn(kind, id) == [op |-> "despawn", kind |-> kind, id |-> id]
SpawnBulletCmd(b) == [op |-> "spawn_bullet", bullet |-> b]
SpawnEndCmd == [op |-> "spawn_end"]

BulletAABB(b) ==
  AABBNew(b.x, b.y, SizeOf(BulletScale10), SizeOf(BulletScale10))
EnemyAABB(e) ==
  AABBNew(e.x, e.y, SizeOf(EnemyScale10), SizeOf(EnemyScale10))
BossAABB(bs) ==
  AABBNew(bs.x, bs.y, SizeOf(BossScale10), SizeOf(BossScale10))

(***************************************************************************)
(* The frame: RunFixedMainLoop, then Update.                               *)
(***************************************************************************)
MouseNext(m) ==
  IF m = "up" THEN {"up", "just"} ELSE {"up", "held"}

BeginFrame ==
  /\ pc = "frame"
  /\ \E n \in 1..MaxTicksPerFrame, e \in BOOLEAN, m \in MouseNext(input.mouse) :
       /\ input' = [key_e |-> e, mouse |-> m]
       /\ time_delta' = n * FixedDtMs
       /\ fixed_left' = n
  /\ todo' = UpdateSystems
  /\ pc' = "update_bullets"
  /\ UNCHANGED <<curse_level, gun, player, tier, end_markers, enemy, boss,
                 bullets, platforms, food, commands, snap, hit_log>>
  /\ UNCHANGED <<garlics, explosions, app_exit, keys, frames>>

(***************************************************************************)
(* gun.rs update_bullets: straight-line integration.                       *)
(***************************************************************************)
MoveBullet(b) == [b EXCEPT !.x = @ + (b.vx * FixedDtMs) \div 1000]

UpdateBullets ==
  /\ pc = "update_bullets"
  /\ bullets' = [i \in DOMAIN bullets |-> MoveBullet(bullets[i])]
  /\ pc' = "handle_collisions"
  /\ UNCHANGED <<curse_level, gun, player, tier, end_markers, enemy, boss,
                 platforms, food, commands, input, time_delta, fixed_left,
                 todo, snap, hit_log>>
  /\ UNCHANGED <<garlics, explosions, app_exit, keys, frames>>

(***************************************************************************)
(* gun.rs handle_collisions.  The loop state st carries what the system    *)
(* mutates while it runs: the bullets' timers, the enemies, the boss, the  *)
(* curse level, the Commands it queues and the log of what each bullet     *)
(* did.  Despawns are commands: a despawned entity stays in its query      *)
(* until the commands are applied, after the system has returned.          *)
(***************************************************************************)
HitsPlatform(b) ==
  \E p \in platforms : GetIntersectionDepth(BulletAABB(b), p) # Vec2Zero

HitsEnemy(e, b) ==
  GetIntersectionDepth(EnemyAABB(e), BulletAABB(b)) # Vec2Zero

HitsBoss(bs, b) ==
  GetIntersectionDepth(BossAABB(bs), BulletAABB(b)) # Vec2Zero

LogEntry(i, kind, target, health) ==
  [bullet |-> i, kind |-> kind, target |-> target, health |-> health]

\* The expiry noticed and the despawn left out.
ExpireBulletForgets(st, i) ==
  [st EXCEPT !.log = Append(@, LogEntry(i, "expired", 0, 0))]

\* Lines 126-129: the lifetime timer has just finished.
ExpireBullet(st, i) ==
  [st EXCEPT !.cmds = Append(@, Despawn("bullet", i)),
             !.log = Append(@, LogEntry(i, "expired", 0, 0))]

\* Lines 132-138: the bullet overlaps a platform.
PlatformHit(st, i) ==
  [st EXCEPT !.cmds = Append(@, Despawn("bullet", i)),
             !.log = Append(@, LogEntry(i, "platform", 0, 0))]

\* The death test written with < instead of <=.
EnemyHitStrict(st, i, e) ==
  LET h == st.enemy[e].health - BulletDamage
      dead == h < 0
  IN [st EXCEPT
        !.enemy[e].health = h,
        !.curse = IF dead
                  THEN [value |-> @.value + EnemyReward, needs_change |-> TRUE]
                  ELSE @,
        !.cmds = (IF dead THEN Append(@, Despawn("enemy", e)) ELSE @)
                   \o <<Despawn("bullet", i)>>,
        !.log = Append(@, LogEntry(i, "enemy", e, h))]

\* The reward written with = instead of +=.
EnemyHitAssign(st, i, e) ==
  LET h == st.enemy[e].health - BulletDamage
      dead == h <= 0
  IN [st EXCEPT
        !.enemy[e].health = h,
        !.curse = IF dead
                  THEN [value |-> EnemyReward, needs_change |-> TRUE]
                  ELSE @,
        !.cmds = (IF dead THEN Append(@, Despawn("enemy", e)) ELSE @)
                   \o <<Despawn("bullet", i)>>,
        !.log = Append(@, LogEntry(i, "enemy", e, h))]

\* The bullet's despawn moved inside the death branch.
EnemyHitKeepsBullet(st, i, e) ==
  LET h == st.enemy[e].health - BulletDamage
      dead == h <= 0
  IN [st EXCEPT
        !.enemy[e].health = h,
        !.curse = IF dead
                  THEN [value |-> @.value + EnemyReward, needs_change |-> TRUE]
                  ELSE @,
        !.cmds = IF dead
                 THEN @ \o <<Despawn("enemy", e), Despawn("bullet", i)>>
                 ELSE @,
        !.log = Append(@, LogEntry(i, "enemy", e, h))]

\* Lines 145-154: the bullet overlaps enemy e.
EnemyHit(st, i, e) ==
  LET h == st.enemy[e].health - BulletDamage
      dead == h <= 0
  IN [st EXCEPT
        !.enemy[e].health = h,
        !.curse = IF dead
                  THEN [value |-> @.value + EnemyReward, needs_change |-> TRUE]
                  ELSE @,
        !.cmds = (IF dead THEN Append(@, Despawn("enemy", e)) ELSE @)
                   \o <<Despawn("bullet", i)>>,
        !.log = Append(@, LogEntry(i, "enemy", e, h))]

\* The boss branch copied from the enemy branch with the reward left at 1.
BossHitEnemyReward(st, i) ==
  LET h == st.boss.health - BulletDamage
      dead == h <= 0
  IN [st EXCEPT
        !.boss.health = h,
        !.curse = IF dead
                  THEN [value |-> @.value + EnemyReward, needs_change |-> TRUE]
                  ELSE @,
        !.cmds = (IF dead THEN Append(@, Despawn("boss", 0)) ELSE @)
                   \o <<Despawn("bullet", i)>>,
        !.log = Append(@, LogEntry(i, "boss", 0, h))]

\* Lines 162-171: the bullet overlaps the boss.
BossHit(st, i) ==
  LET h == st.boss.health - BulletDamage
      dead == h <= 0
  IN [st EXCEPT
        !.boss.health = h,
        !.curse = IF dead
                  THEN [value |-> @.value + BossReward, needs_change |-> TRUE]
                  ELSE @,
        !.cmds = (IF dead THEN Append(@, Despawn("boss", 0)) ELSE @)
                   \o <<Despawn("bullet", i)>>,
        !.log = Append(@, LogEntry(i, "boss", 0, h))]

\* The enemies of the query, in its order, that the bullet overlaps.
EnemiesHit(st, b, eorder) ==
  SelectSeq(eorder, LAMBDA e : HitsEnemy(st.enemy[e], b))

\* The enemy loop placed before the platform loop.
ProcessBulletEnemyFirst(st, i, eorder) ==
  LET t == TimerTick(st.bullets[i].despawn_timer, FixedDtMs)
      st1 == [st EXCEPT !.bullets[i].despawn_timer = t]
      b == st1.bullets[i]
      hit == EnemiesHit(st1, b, eorder)
  IN IF t.just_finished THEN ExpireBullet(st1, i)
     ELSE IF hit # <<>> THEN EnemyHit(st1, i, Head(hit))
     ELSE IF HitsPlatform(b) THEN PlatformHit(st1, i)
     ELSE IF st1.boss.exists /\ HitsBoss(st1.boss, b) THEN BossHit(st1, i)
     ELSE st1

\* The enemy branch without its continue 'bullet: the boss loop runs too.
ProcessBulletNoContinue(st, i, eorder) ==
  LET t == TimerTick(st.bullets[i].despawn_timer, FixedDtMs)
      st1 == [st EXCEPT !.bullets[i].despawn_timer = t]
      b == st1.bullets[i]
      hit == EnemiesHit(st1, b, eorder)
      st2 == IF hit # <<>> THEN EnemyHit(st1, i, Head(hit)) ELSE st1
  IN IF t.just_finished THEN ExpireBullet(st1, i)
     ELSE IF HitsPlatform(b) THEN PlatformHit(st1, i)
     ELSE IF st2.boss.exists /\ HitsBoss(st2.boss, b) THEN BossHit(st2, i)
     ELSE st2

\* The lifetime test placed after the collision tests.
ProcessBulletLateExpiry(st, i, eorder) ==
  LET t == TimerTick(st.bullets[i].despawn_timer, FixedDtMs)
      st1 == [st EXCEPT !.bullets[i].despawn_timer = t]
      b == st1.bullets[i]
      hit == EnemiesHit(st1, b, eorder)
  IN IF HitsPlatform(b) THEN PlatformHit(st1, i)
     ELSE IF hit # <<>> THEN EnemyHit(st1, i, Head(hit))
     ELSE IF st1.boss.exists /\ HitsBoss(st1.boss, b) THEN BossHit(st1, i)
     ELSE IF t.just_finished THEN ExpireBullet(st1, i)
     ELSE st1

\* Lines 124-173: the body of the 'bullet loop for bullet i.
ProcessBullet(st, i, eorder) ==
  LET t == TimerTick(st.bullets[i].despawn_timer, FixedDtMs)
      st1 == [st EXCEPT !.bullets[i].despawn_timer = t]
      b == st1.bullets[i]
      hit == EnemiesHit(st1, b, eorder)
  IN IF t.just_finished THEN ExpireBullet(st1, i)
     ELSE IF HitsPlatform(b) THEN PlatformHit(st1, i)
     ELSE IF hit # <<>> THEN EnemyHit(st1, i, Head(hit))
     ELSE IF st1.boss.exists /\ HitsBoss(st1.boss, b) THEN BossHit(st1, i)
     ELSE st1

RECURSIVE BulletLoop(_, _, _)
BulletLoop(st, border, eorder) ==
  IF border = <<>> THEN st
  ELSE BulletLoop(ProcessBullet(st, Head(border), eorder), Tail(border), eorder)

LiveEnemies == {e \in EnemyIds : enemy[e].exists}

HandleCollisions ==
  /\ pc = "handle_collisions"
  /\ \E border \in Orders(DOMAIN bullets), eorder \in Orders(LiveEnemies) :
       LET st0 == [bullets |-> bullets, enemy |-> enemy, boss |-> boss,
                   curse |-> curse_level, cmds |-> commands, log |-> <<>>]
           st == BulletLoop(st0, border, eorder)
       IN /\ bullets' = st.bullets
          /\ enemy' = st.enemy
          /\ boss' = st.boss
          /\ curse_level' = st.curse
          /\ commands' = st.cmds
          /\ hit_log' = st.log
  /\ snap' = [taken |-> TRUE, enemy |-> enemy, boss |-> boss,
              curse |-> curse_level]
  /\ pc' = "fixed_apply"
  /\ UNCHANGED <<gun, player, tier, end_markers, platforms, food, input,
                 time_delta, fixed_left, todo>>
  /\ UNCHANGED <<garlics, explosions, app_exit, keys, frames>>

(***************************************************************************)
(* The end of a schedule run: the queued commands are applied in order.    *)
(* Despawning an entity that is already gone does nothing.                 *)
(***************************************************************************)
Despawned(kind) ==
  {commands[k].id : k \in {j \in DOMAIN commands :
      commands[j].op = "despawn" /\ commands[j].kind = kind}}

SpawnedBullets ==
  LET sp == SelectSeq(commands, LAMBDA c : c.op = "spawn_bullet")
  IN [k \in DOMAIN sp |-> sp[k].bullet]

RECURSIVE KeepBullets(_, _, _)
KeepBullets(bs, i, gone) ==
  IF i > Len(bs) THEN <<>>
  ELSE (IF i \in gone THEN <<>> ELSE <<bs[i]>>) \o KeepBullets(bs, i + 1, gone)

NoEnemy(e) == [enemy[e] EXCEPT !.exists = FALSE, !.health = 0]

SpawnedGarlics ==
  LET sp == SelectSeq(commands, LAMBDA c : c.op = "spawn_garlic")
  IN [k \in DOMAIN sp |-> sp[k].garlic]

SpawnedExplosions ==
  LET sp == SelectSeq(commands, LAMBDA c : c.op = "spawn_explosion")
  IN [k \in DOMAIN sp |-> sp[k].at]

ApplyCommands ==
  /\ bullets' = KeepBullets(bullets, 1, Despawned("bullet")) \o SpawnedBullets
  /\ enemy' = [e \in EnemyIds |->
                 IF e \in Despawned("enemy") THEN NoEnemy(e) ELSE enemy[e]]
  /\ boss' = IF Despawned("boss") # {}
             THEN [boss EXCEPT !.exists = FALSE, !.health = 0] ELSE boss
  /\ food' = {f \in food : f.id \notin Despawned("food")}
  /\ end_markers' = end_markers + CountIn(commands, SpawnEndCmd)
  /\ garlics' = KeepBullets(garlics, 1, Despawned("garlic")) \o SpawnedGarlics
  /\ explosions' = KeepBullets(explosions, 1, Despawned("explosion"))
                      \o SpawnedExplosions
  /\ commands' = <<>>

ApplyFixed ==
  /\ pc = "fixed_apply"
  /\ ApplyCommands
  /\ snap' = NoSnap
  /\ hit_log' = <<>>
  /\ fixed_left' = fixed_left - 1
  /\ pc' = IF fixed_left > 1 THEN "update_bullets" ELSE "update"
  /\ UNCHANGED <<curse_level, gun, player, tier, platforms, input,
                 time_delta, todo, app_exit, keys, frames>>

(***************************************************************************)
(* gun.rs spawn_bullet.                                                    *)
(***************************************************************************)
NewBullet(loc, facing_right) ==
  [x |-> loc.x + (IF facing_right THEN BulletSpawnDx ELSE -BulletSpawnDx),
   y |-> loc.y + BulletSpawnDy,
   vx |-> IF facing_right THEN BulletSpeed ELSE -BulletSpeed,
   despawn_timer |-> TimerNew(BulletLifetimeMs, FALSE)]

BulletsQueued == Len(SelectSeq(commands, LAMBDA c : c.op = "spawn_bullet"))

\* The model holds at most MaxBullets bullets: a spawn beyond that is not explored.
RoomForBullet == Len(bullets) + BulletsQueued < MaxBullets

Ran(sys) ==
  /\ pc = "update"
  /\ sys \in todo
  /\ todo' = todo \ {sys}
  /\ UNCHANGED <<pc, fixed_left, input, time_delta, snap, hit_log>>

(***************************************************************************)
(* player.rs record_shooting_input.                                        *)
(***************************************************************************)
\* The enabled test left out.
ShootingInputUngated(g, mouse) ==
  [g EXCEPT !.shooting =
     IF g.shooting_cooldown.duration <= HoldToFireMs
     THEN mouse \in {"just", "held"}
     ELSE mouse = "just"]

ShootingInput(g, mouse) ==
  IF g.enabled
  THEN [g EXCEPT !.shooting =
          IF g.shooting_cooldown.duration <= HoldToFireMs
          THEN mouse \in {"just", "held"}
          ELSE mouse = "just"]
  ELSE g

RecordShootingInput ==
  /\ Ran("record_shooting_input")
  /\ gun' = ShootingInput(gun, input.mouse)
  /\ UNCHANGED <<curse_level, player, tier, end_markers, enemy, boss, bullets,
                 platforms, food, commands, garlics, explosions, app_exit, keys, frames>>

(***************************************************************************)
(* gun.rs shoot.                                                           *)
(***************************************************************************)
ShootTicked(g, delta) ==
  IF ~g.can_shoot
  THEN [g EXCEPT !.shooting_cooldown = TimerTick(@, delta)]
  ELSE g

\* The cooldown test left out.
ShootFiresAlways(g) == g.shooting

ShootFires(g) == g.shooting /\ (g.can_shoot \/ g.shooting_cooldown.just_finished)

ShootGun(g) ==
  IF ~g.shooting
  THEN IF g.shooting_cooldown.just_finished
       THEN [g EXCEPT !.can_shoot = TRUE,
                      !.shooting_cooldown = TimerReset(@)]
       ELSE g
  ELSE IF ShootFires(g) THEN [g EXCEPT !.can_shoot = FALSE] ELSE g

Shoot ==
  /\ Ran("shoot")
  /\ LET g == ShootTicked(gun, time_delta)
     IN /\ gun' = ShootGun(g)
        /\ IF ShootFires(g)
           THEN /\ RoomForBullet
                /\ commands' = Append(commands,
                     SpawnBulletCmd(NewBullet(player, player.facing_right)))
           ELSE commands' = commands
  /\ UNCHANGED <<curse_level, player, tier, end_markers, enemy, boss, bullets,
                 platforms, food, garlics, explosions, app_exit, keys, frames>>

(***************************************************************************)
(* food.rs eat.                                                            *)
(***************************************************************************)
DistSq(a, b) ==
  (a.x - b.x) * (a.x - b.x) + (a.y - b.y) * (a.y - b.y)
    + (a.z - b.z) * (a.z - b.z)

InReach(f) == DistSq(player, f) < EatRange * EatRange

Eaten == IF input.key_e THEN {f \in food : InReach(f)} ELSE {}

GunEaten == \E f \in Eaten : f.gives_gun

\* The pickup sets the value and forgets the flag.
EatCurseSilent(cl) == [value |-> 1, needs_change |-> cl.needs_change]

EatCurse(cl) == [value |-> 1, needs_change |-> TRUE]

EatGun(g) ==
  [g EXCEPT !.enabled = TRUE, !.shooting_cooldown = TimerReset(@)]

RECURSIVE DespawnAll(_, _)
DespawnAll(kind, ids) ==
  IF ids = {} THEN <<>>
  ELSE LET i == CHOOSE j \in ids : \A k \in ids : j <= k
       IN <<Despawn(kind, i)>> \o DespawnAll(kind, ids \ {i})

Eat ==
  /\ Ran("eat")
  /\ IF GunEaten
     THEN /\ RoomForBullet
          /\ curse_level' = EatCurse(curse_level)
          /\ gun' = EatGun(gun)
          /\ commands' = Append(commands,
               SpawnBulletCmd(NewBullet(player, player.facing_right)))
                 \o DespawnAll("food", {f.id : f \in Eaten})
     ELSE /\ commands' = commands \o DespawnAll("food", {f.id : f \in Eaten})
          /\ UNCHANGED <<curse_level, gun>>
  /\ UNCHANGED <<player, tier, end_markers, enemy, boss, bullets, platforms,
                 food, garlics, explosions, app_exit, keys, frames>>

(***************************************************************************)
(* level.rs curse_level_change: the reconciliation.                        *)
(***************************************************************************)
\* The band written 2..=7 instead of 2..7.
TierOfInclusive(v) ==
  IF v = 0 THEN 0 ELSE IF v = 1 THEN 1 ELSE IF v >= 2 /\ v <= 7 THEN 2 ELSE 3

TierOf(v) ==
  IF v = 0 THEN 0 ELSE IF v = 1 THEN 1 ELSE IF v >= 2 /\ v < 7 THEN 2 ELSE 3

\* The flag is never cleared.
ReconcileKeepsFlag(cl, g, tr) ==
  IF ~cl.needs_change
  THEN [curse |-> cl, gun |-> g, tier |-> tr, cmds |-> <<>>]
  ELSE [curse |-> cl,
        gun |-> IF cl.value >= FastFireLevel
                THEN [g EXCEPT !.shooting_cooldown =
                                 TimerNew(FastCooldownMs, TRUE)]
                ELSE g,
        tier |-> TierOf(cl.value),
        cmds |-> IF cl.value > EndLevel THEN <<SpawnEndCmd>> ELSE <<>>]

\* Fast fire from value > 2 instead of value >= 2.
ReconcileLateFastFire(cl, g, tr) ==
  IF ~cl.needs_change
  THEN [curse |-> cl, gun |-> g, tier |-> tr, cmds |-> <<>>]
  ELSE [curse |-> [cl EXCEPT !.needs_change = FALSE],
        gun |-> IF cl.value > FastFireLevel
                THEN [g EXCEPT !.shooting_cooldown =
                                 TimerNew(FastCooldownMs, TRUE)]
                ELSE g,
        tier |-> TierOf(cl.value),
        cmds |-> IF cl.value > EndLevel THEN <<SpawnEndCmd>> ELSE <<>>]

\* No early return: the system acts on every run.
ReconcileUngated(cl, g, tr) ==
  [curse |-> [cl EXCEPT !.needs_change = FALSE],
   gun |-> IF cl.value >= FastFireLevel
           THEN [g EXCEPT !.shooting_cooldown = TimerNew(FastCooldownMs, TRUE)]
           ELSE g,
   tier |-> TierOf(cl.value),
   cmds |-> IF cl.value > EndLevel THEN <<SpawnEndCmd>> ELSE <<>>]

\* What one run makes of the curse level cl, the gun g and the grass tier
\* tr, and the commands it queues.
Reconcile(cl, g, tr) ==
  IF ~cl.needs_change
  THEN [curse |-> cl, gun |-> g, tier |-> tr, cmds |-> <<>>]
  ELSE [curse |-> [cl EXCEPT !.needs_change = FALSE],
        gun |-> IF cl.value >= FastFireLevel
                THEN [g EXCEPT !.shooting_cooldown =
                                 TimerNew(FastCooldownMs, TRUE)]
                ELSE g,
        tier |-> TierOf(cl.value),
        cmds |-> IF cl.value > EndLevel THEN <<SpawnEndCmd>> ELSE <<>>]

CurseLevelChange ==
  /\ Ran("curse_level_change")
  /\ LET r == Reconcile(curse_level, gun, tier)
     IN /\ curse_level' = r.curse
        /\ gun' = r.gun
        /\ tier' = r.tier
        /\ commands' = commands \o r.cmds
  /\ UNCHANGED <<player, end_markers, enemy, boss, bullets, platforms, food,
                 garlics, explosions, app_exit, keys, frames>>

ApplyUpdate ==
  /\ pc = "update"
  /\ todo = {}
  /\ ApplyCommands
  /\ pc' = "frame"
  /\ UNCHANGED <<curse_level, gun, player, tier, platforms, input, time_delta,
                 fixed_left, todo, snap, hit_log, app_exit, keys, frames>>

Next ==
  \/ BeginFrame
  \/ UpdateBullets
  \/ HandleCollisions
  \/ ApplyFixed
  \/ RecordShootingInput
  \/ Shoot
  \/ Eat
  \/ CurseLevelChange
  \/ ApplyUpdate

Spec == Init /\ [][Next]_vars

(***************************************************************************)
(* The session of a player who picks up the gun and lets its free bullet   *)
(* fly, never pressing the mouse button.  The runner goes on running       *)
(* frames, and a frame runs every system of its schedules.                 *)
(***************************************************************************)
LiveBeginFrame ==
  /\ pc = "frame"
  /\ \E n \in 1..MaxTicksPerFrame, e \in BOOLEAN :
       /\ input' = [key_e |-> e, mouse |-> "up"]
       /\ time_delta' = n * FixedDtMs
       /\ fixed_left' = n
  /\ todo' = UpdateSystems
  /\ pc' = "update_bullets"
  /\ UNCHANGED <<curse_level, gun, player, tier, end_markers, enemy, boss,
                 bullets, platforms, food, commands, snap, hit_log>>
  /\ UNCHANGED <<garlics, explosions, app_exit, keys, frames>>

NextLive ==
  \/ LiveBeginFrame
  \/ UpdateBullets
  \/ HandleCollisions
  \/ ApplyFixed
  \/ RecordShootingInput
  \/ Shoot
  \/ Eat
  \/ CurseLevelChange
  \/ ApplyUpdate

SpecLive == Init /\ [][NextLive]_vars /\ WF_vars(NextLive)

(***************************************************************************)
(* The session after the pickup, at a frame rate above the fixed rate: a   *)
(* frame lasts ShortFrameMs, less than a fixed timestep, and the fixed     *)
(* schedule runs in it once or not at all, as the accumulated time has or  *)
(* has not reached a timestep (the accumulator itself is not modelled).    *)
(* The session is entered with the gun ready, either at curse level 1 with *)
(* the 0.8 s cooldown and a wall in the bullets' way, or at curse level 2, *)
(* the first mushroom shot, with the 0.1 s cooldown.  Nothing edible is in *)
(* reach and the E key is left alone.                                      *)
(***************************************************************************)
ShortFrameMs == 60

GunBeginFrame ==
  /\ pc = "frame"
  /\ \E n \in {0, 1}, m \in MouseNext(input.mouse) :
       /\ input' = [key_e |-> FALSE, mouse |-> m]
       /\ fixed_left' = n
       /\ pc' = IF n = 0 THEN "update" ELSE "update_bullets"
  /\ time_delta' = ShortFrameMs
  /\ todo' = UpdateSystems
  /\ UNCHANGED <<curse_level, gun, player, tier, end_markers, enemy, boss,
                 bullets, platforms, food, commands, snap, hit_log>>
  /\ UNCHANGED <<garlics, explosions, app_exit, keys, frames>>

InitGun ==
  /\ \E fast \in BOOLEAN :
       /\ curse_level = [value |-> IF fast THEN FastFireLevel ELSE 1,
                         needs_change |-> FALSE]
       /\ tier = TierOf(IF fast THEN FastFireLevel ELSE 1)
       /\ gun = [GunInit EXCEPT !.enabled = TRUE,
                   !.shooting_cooldown =
                      TimerNew(IF fast THEN FastCooldownMs ELSE GunCooldownMs,
                               TRUE)]
       /\ enemy = IF fast
                  THEN [EnemyInit(TRUE) EXCEPT ![1].health = 0,
                                               ![1].exists = FALSE]
                  ELSE EnemyInit(TRUE)
       /\ platforms = IF fast THEN {GroundPlatform, FarWallPlatform}
                      ELSE {GroundPlatform, WallPlatform}
  /\ player = PlayerInit
  /\ end_markers = 0
  /\ boss = BossInit
  /\ bullets = <<>>
  /\ food = {f \in FoodInit : ~f.gives_gun /\ f.x > EatRange}
  /\ commands = <<>>
  /\ input = [key_e |-> FALSE, mouse |-> "up"]
  /\ time_delta = 0
  /\ pc = "frame"
  /\ fixed_left = 0
  /\ todo = {}
  /\ snap = NoSnap
  /\ hit_log = <<>>
  /\ garlics = <<>>
  /\ explosions = <<>>
  /\ app_exit = 0
  /\ keys = NoKeys
  /\ frames = 0

NextGun ==
  \/ GunBeginFrame
  \/ UpdateBullets
  \/ HandleCollisions
  \/ ApplyFixed
  \/ RecordShootingInput
  \/ Shoot
  \/ Eat
  \/ CurseLevelChange
  \/ ApplyUpdate

SpecGun == InitGun /\ [][NextGun]_vars

(***************************************************************************)
(* A frame's Update phase in which only the reconciliation is left to run, *)
(* entered with any curse level and any grass image.                       *)
(***************************************************************************)
MaxValue == 104

InitLevel ==
  /\ \E v \in 0..MaxValue :
       curse_level = [value |-> v, needs_change |-> TRUE]
  /\ \E fast \in BOOLEAN :
       gun = [GunInit EXCEPT !.enabled = TRUE,
                !.shooting_cooldown =
                   TimerNew(IF fast THEN FastCooldownMs ELSE GunCooldownMs, TRUE)]
  /\ tier \in 0..3
  /\ player = PlayerInit
  /\ end_markers = 0
  /\ enemy = EnemyInit(FALSE)
  /\ boss = BossInit
  /\ bullets = <<>>
  /\ platforms = {GroundPlatform}
  /\ food = {}
  /\ commands = <<>>
  /\ input = [key_e |-> FALSE, mouse |-> "up"]
  /\ time_delta = FixedDtMs
  /\ pc = "update"
  /\ fixed_left = 0
  /\ todo = {"curse_level_change"}
  /\ snap = NoSnap
  /\ hit_log = <<>>
  /\ garlics = <<>>
  /\ explosions = <<>>
  /\ app_exit = 0
  /\ keys = NoKeys
  /\ frames = 0

NextLevel == CurseLevelChange \/ ApplyUpdate

SpecLevel == InitLevel /\ [][NextLevel]_vars

(***************************************************************************)
(* AABB edges (demo/aabb.rs).                                              *)
(***************************************************************************)
Left(a) == a.center.x - a.half_size.x
Right(a) == a.center.x + a.half_size.x
Top(a) == a.center.y + a.half_size.y
Bottom(a) == a.center.y - a.half_size.y

(***************************************************************************)
(* movement.rs apply_movement, for one mover and a step of dt ms.          *)
(***************************************************************************)
Max(a, b) == IF a >= b THEN a ELSE b

\* Line 91 left out: no terminal velocity.
ApplyMovementNoClamp(m, dt) ==
  LET vx == m.speed * m.horizontal
      airborne == ~m.grounded
      vy == IF airborne
            THEN IF m.gliding THEN -((Gravity * GlideTenths) \div 10)
                 ELSE m.vy - Gravity
            ELSE m.vy
  IN [m EXCEPT !.vx = vx,
               !.vy = vy,
               !.jump_timer = IF airborne /\ m.gliding THEN @ + dt ELSE @,
               !.x = @ + (vx * dt) \div 1000,
               !.y = @ + (vy * dt) \div 1000]

\* Lines 81-92.
ApplyMovementTo(m, dt) ==
  LET vx == m.speed * m.horizontal
      airborne == ~m.grounded
      vy0 == IF airborne
             THEN IF m.gliding THEN -((Gravity * GlideTenths) \div 10)
                  ELSE m.vy - Gravity
             ELSE m.vy
      vy == Max(vy0, -TerminalSpeed)
  IN [m EXCEPT !.vx = vx,
               !.vy = vy,
               !.jump_timer = IF airborne /\ m.gliding THEN @ + dt ELSE @,
               !.x = @ + (vx * dt) \div 1000,
               !.y = @ + (vy * dt) \div 1000]

ApplyMovement ==
  /\ pc = "apply_movement"
  /\ player' = ApplyMovementTo(player, FixedDtMs)
  /\ enemy' = [e \in EnemyIds |->
                 IF enemy[e].exists THEN ApplyMovementTo(enemy[e], FixedDtMs)
                 ELSE enemy[e]]
  /\ garlics' = [i \in DOMAIN garlics |-> ApplyMovementTo(garlics[i], FixedDtMs)]
  /\ pc' = "movement_collisions"
  /\ UNCHANGED <<curse_level, gun, tier, end_markers, boss, bullets, platforms,
                 food, commands, input, time_delta, fixed_left, todo, snap,
                 hit_log, explosions, app_exit, keys, frames>>

(***************************************************************************)
(* movement.rs handle_collisions.  The loop state c of one mover carries   *)
(* the mover, the AABB built before the platform loop (its centre is       *)
(* refreshed only by a horizontal snap) and the collided flag.             *)
(***************************************************************************)
MoverAABB(m) == AABBNew(m.x, m.y, SizeOf(m.scale10), SizeOf(m.scale10))

\* Lines 126-137: the four rejections.
Overlaps(a, p) ==
  /\ ~(Bottom(a) > Top(p))
  /\ ~(Left(a) >= Right(p))
  /\ ~(Right(a) <= Left(p))
  /\ ~(Top(a) < Bottom(p))

\* The vertical correction made whatever the depth.
ResolvePlatformNoLimit(c, p) ==
  IF ~Overlaps(c.aabb, p) THEN c
  ELSE LET d0 == GetIntersectionDepth(c.aabb, p)
           snapx == Abs(d0.x) <= SnapX
           m1 == IF snapx THEN [c.m EXCEPT !.x = @ + d0.x, !.vx = 0] ELSE c.m
           a1 == IF snapx
                 THEN [c.aabb EXCEPT !.center = [x |-> m1.x, y |-> m1.y]]
                 ELSE c.aabb
           d1 == IF snapx THEN GetIntersectionDepth(a1, p) ELSE d0
           lands == d1.y > 0 /\ d1.y <= SnapY
           m2 == [m1 EXCEPT !.y = @ + d1.y,
                            !.vy = 0,
                            !.grounded = IF lands THEN TRUE ELSE @,
                            !.jump_timer = IF lands THEN 0 ELSE @]
       IN [m |-> m2, aabb |-> a1, collided |-> TRUE]

\* The vertical correction made with the depth found before the horizontal
\* snap.
ResolvePlatformStaleDepth(c, p) ==
  IF ~Overlaps(c.aabb, p) THEN c
  ELSE LET d0 == GetIntersectionDepth(c.aabb, p)
           snapx == Abs(d0.x) <= SnapX
           m1 == IF snapx THEN [c.m EXCEPT !.x = @ + d0.x, !.vx = 0] ELSE c.m
           a1 == IF snapx
                 THEN [c.aabb EXCEPT !.center = [x |-> m1.x, y |-> m1.y]]
                 ELSE c.aabb
           snapy == Abs(d0.y) <= SnapY
           lands == d0.y > 0 /\ d0.y <= SnapY
           m2 == IF snapy
                 THEN [m1 EXCEPT !.y = @ + d0.y,
                                 !.vy = 0,
                                 !.grounded = IF lands THEN TRUE ELSE @,
                                 !.jump_timer = IF lands THEN 0 ELSE @]
                 ELSE m1
       IN [m |-> m2, aabb |-> a1, collided |-> TRUE]

\* Lines 126-157: one platform of the loop.
ResolvePlatform(c, p) ==
  IF ~Overlaps(c.aabb, p) THEN c
  ELSE LET d0 == GetIntersectionDepth(c.aabb, p)
           snapx == Abs(d0.x) <= SnapX
           m1 == IF snapx THEN [c.m EXCEPT !.x = @ + d0.x, !.vx = 0] ELSE c.m
           a1 == IF snapx
                 THEN [c.aabb EXCEPT !.center = [x |-> m1.x, y |-> m1.y]]
                 ELSE c.aabb
           d1 == IF snapx THEN GetIntersectionDepth(a1, p) ELSE d0
           snapy == Abs(d1.y) <= SnapY
           lands == d1.y > 0 /\ d1.y <= SnapY
           m2 == IF snapy
                 THEN [m1 EXCEPT !.y = @ + d1.y,
                                 !.vy = 0,
                                 !.grounded = IF lands THEN TRUE ELSE @,
                                 !.jump_timer = IF lands THEN 0 ELSE @]
                 ELSE m1
       IN [m |-> m2, aabb |-> a1, collided |-> TRUE]

RECURSIVE PlatformLoop(_, _)
PlatformLoop(c, porder) ==
  IF porder = <<>> THEN c
  ELSE PlatformLoop(ResolvePlatform(c, Head(porder)), Tail(porder))

\* The else branch of line 167 left out.
CollideMoverKeepsGrounded(m, porder) ==
  LET c == PlatformLoop([m |-> m, aabb |-> MoverAABB(m), collided |-> FALSE],
                        porder)
  IN [m |-> c.m, collided |-> c.collided]

\* Lines 121-170 for one mover, less the Garlic branch.
CollideMover(m, porder) ==
  LET c == PlatformLoop([m |-> m, aabb |-> MoverAABB(m), collided |-> FALSE],
                        porder)
  IN [m |-> IF c.collided THEN c.m ELSE [c.m EXCEPT !.grounded = FALSE],
      collided |-> c.collided]

SpawnExplosionCmd(m) ==
  [op |-> "spawn_explosion", at |-> [x |-> m.x, y |-> m.y, z |-> m.z]]

\* The bomb blows up whether or not it touched anything.
GarlicCommandsAlways(r, i) ==
  <<SpawnExplosionCmd(r.m), Despawn("garlic", i)>>

\* Lines 159-166: what a Garlic mover queues, given its pass r.
GarlicCommands(r, i) ==
  IF r.collided THEN <<SpawnExplosionCmd(r.m), Despawn("garlic", i)>>
  ELSE <<>>

RECURSIVE GarlicLoop(_, _)
GarlicLoop(rs, i) ==
  IF i > Len(rs) THEN <<>>
  ELSE GarlicCommands(rs[i], i) \o GarlicLoop(rs, i + 1)

MovementCollisions ==
  /\ pc = "movement_collisions"
  /\ \E porder \in Orders(platforms) :
       LET rs == [i \in DOMAIN garlics |-> CollideMover(garlics[i], porder)]
       IN /\ player' = CollideMover(player, porder).m
          /\ enemy' = [e \in EnemyIds |->
                         IF enemy[e].exists
                         THEN CollideMover(enemy[e], porder).m
                         ELSE enemy[e]]
          /\ garlics' = [i \in DOMAIN garlics |-> rs[i].m]
          /\ commands' = commands \o GarlicLoop(rs, 1)
          /\ snap' = [taken |-> TRUE, player |-> player, enemy |-> enemy,
                      garlics |-> garlics, porder |-> porder]
  /\ pc' = "movement_apply"
  /\ UNCHANGED <<curse_level, gun, tier, end_markers, boss, bullets, platforms,
                 food, input, time_delta, fixed_left, todo, hit_log,
                 explosions, app_exit, keys, frames>>

\* The end of a FixedUpdate run of the movement chain.
ApplyMovementFixed ==
  /\ pc = "movement_apply"
  /\ ApplyCommands
  /\ snap' = NoSnap
  /\ fixed_left' = fixed_left - 1
  /\ pc' = IF fixed_left > 1 THEN "apply_movement" ELSE "update"
  /\ UNCHANGED <<curse_level, gun, player, tier, platforms, input,
                 time_delta, todo, hit_log, app_exit, keys, frames>>

(***************************************************************************)
(* One run of the terrain collision over movers placed around a platform:  *)
(* the player and one bomb, each at a point of a grid that covers every    *)
(* side of the thresholds.                                                 *)
(***************************************************************************)
Slab == AABBNew(0, 0, 100, 20)
Ledge == AABBNew(180, 30, 80, 20)

InitCollide ==
  /\ \E two \in BOOLEAN : platforms = IF two THEN {Slab, Ledge} ELSE {Slab}
  /\ \E x \in {-140, -132, -128, -124, -122, 0, 96},
        y \in {60, 52, 40, 28, 27, 0, -40, -60},
        g \in BOOLEAN, jt \in {0, 500} :
       player = [PlayerAt(x, y, PlayerHealth) EXCEPT
                   !.grounded = g,
                   !.jump_timer = jt,
                   !.horizontal = 1,
                   !.vx = PlayerSpeed,
                   !.vy = IF g THEN 0 ELSE -Gravity]
  /\ \E x \in {-126, 0, 300}, y \in {40, 44, 100, 0} :
       garlics = <<Mover(x, y, 3, GarlicScale10, 0, 1, -BossDropVy, TRUE)>>
  /\ curse_level = CurseLevelInit
  /\ gun = GunInit
  /\ tier = 0
  /\ end_markers = 0
  /\ enemy = [e \in EnemyIds |-> [EnemyAt(0, 0, 0) EXCEPT !.exists = FALSE]]
  /\ boss = [BossInit EXCEPT !.exists = FALSE]
  /\ bullets = <<>>
  /\ food = {}
  /\ commands = <<>>
  /\ input = [key_e |-> FALSE, mouse |-> "up"]
  /\ time_delta = FixedDtMs
  /\ pc = "movement_collisions"
  /\ fixed_left = 1
  /\ todo = {}
  /\ snap = NoSnap
  /\ hit_log = <<>>
  /\ explosions = <<>>
  /\ app_exit = 0
  /\ keys = NoKeys
  /\ frames = 0

NextCollide == MovementCollisions \/ ApplyMovementFixed \/ ApplyUpdate

SpecCollide == InitCollide /\ [][NextCollide]_vars

(***************************************************************************)
(* player.rs record_player_directional_input.                              *)
(***************************************************************************)
Intent(k) == (IF k.right THEN 1 ELSE 0) - (IF k.left THEN 1 ELSE 0)

\* Lines 114-136 for the player's controller m and the pressed keys k.
DirectionalInput(m, k) ==
  LET jumps == k.space /\ m.grounded
      glides == k.space /\ ~m.grounded /\ m.vy < 0 /\ m.jump_timer < JumpTimeMs
  IN [m EXCEPT !.vy = IF jumps THEN JumpForce * JumpBoost ELSE @,
               !.grounded = IF jumps THEN FALSE ELSE @,
               !.gliding = IF jumps THEN @ ELSE glides,
               !.horizontal = Intent(k),
               !.facing_right = IF Intent(k) < 0 THEN FALSE
                                ELSE IF Intent(k) > 0 THEN TRUE ELSE @]

RecordDirectionalInput ==
  /\ Ran("record_player_directional_input")
  /\ player' = DirectionalInput(player, keys)
  /\ UNCHANGED <<curse_level, gun, tier, end_markers, enemy, boss, bullets,
                 platforms, food, commands, garlics, explosions, app_exit,
                 keys, frames>>

(***************************************************************************)
(* enemy.rs explode.  The loop state st carries the player's health, the   *)
(* AppExit messages written and the commands queued.                       *)
(***************************************************************************)
InBlast(pl, ex) == DistSq(pl, ex) < ExplosionRadius * ExplosionRadius

\* AppExit written on every hit, whatever health is left.
ExplodeOneAlwaysExit(st, pl, i) ==
  LET hit == InBlast(pl, explosions[i])
      h == IF hit THEN st.health - ExplosionDamage ELSE st.health
  IN [health |-> h,
      exits |-> st.exits + (IF hit THEN 1 ELSE 0),
      cmds |-> Append(st.cmds, Despawn("explosion", i))]

\* The despawn moved inside the distance test.
ExplodeOneIfHit(st, pl, i) ==
  LET hit == InBlast(pl, explosions[i])
      h == IF hit THEN st.health - ExplosionDamage ELSE st.health
  IN [health |-> h,
      exits |-> st.exits + (IF hit /\ h <= 0 THEN 1 ELSE 0),
      cmds |-> IF hit THEN Append(st.cmds, Despawn("explosion", i))
               ELSE st.cmds]

\* Lines 165-175: Explosion i against the player at pl.
ExplodeOne(st, pl, i) ==
  LET hit == InBlast(pl, explosions[i])
      h == IF hit THEN st.health - ExplosionDamage ELSE st.health
  IN [health |-> h,
      exits |-> st.exits + (IF hit /\ h <= 0 THEN 1 ELSE 0),
      cmds |-> Append(st.cmds, Despawn("explosion", i))]

RECURSIVE ExplodeLoop(_, _, _)
ExplodeLoop(st, pl, order) ==
  IF order = <<>> THEN st
  ELSE ExplodeLoop(ExplodeOne(st, pl, Head(order)), pl, Tail(order))

Explode ==
  /\ Ran("explode")
  /\ \E order \in Orders(DOMAIN explosions) :
       LET st == ExplodeLoop([health |-> player.health, exits |-> app_exit,
                              cmds |-> commands], player, order)
       IN /\ player' = [player EXCEPT !.health = st.health]
          /\ app_exit' = st.exits
          /\ commands' = st.cmds
  /\ UNCHANGED <<curse_level, gun, tier, end_markers, enemy, boss, bullets,
                 platforms, food, garlics, explosions, keys, frames>>

(***************************************************************************)
(* The player among falling bombs: each frame runs the movement chain of   *)
(* FixedUpdate and then, in either order, the directional input and the    *)
(* explosions.  The app stops after the frame in which AppExit is written. *)
(***************************************************************************)
MaxFrames == 4

PlaySystems == {"record_player_directional_input", "explode"}

PlayBeginFrame ==
  /\ pc = "frame"
  /\ app_exit = 0
  /\ frames < MaxFrames
  /\ frames' = frames + 1
  /\ \E n \in 1..MaxTicksPerFrame, r \in BOOLEAN, sp \in BOOLEAN :
       /\ keys' = [left |-> FALSE, right |-> r, space |-> sp]
       /\ time_delta' = n * FixedDtMs
       /\ fixed_left' = n
  /\ todo' = PlaySystems
  /\ pc' = "apply_movement"
  /\ UNCHANGED <<curse_level, gun, player, tier, end_markers, enemy, boss,
                 bullets, platforms, food, commands, input, snap, hit_log,
                 garlics, explosions, app_exit>>

InitPlay ==
  /\ platforms = {Slab}
  /\ \E h \in {PlayerHealth, PlayerHealth - 2 * ExplosionDamage} :
       player = PlayerAt(0, 82, h)
  /\ \E at \in {<<30, 300>>, <<200, 300>>, <<90, 100>>} :
       garlics = <<Mover(30, 100, 3, GarlicScale10, 0, 1, -BossDropVy, TRUE),
                   Mover(at[1], at[2], 3, GarlicScale10, 0, 1, -BossDropVy,
                         TRUE)>>
  /\ curse_level = CurseLevelInit
  /\ gun = GunInit
  /\ tier = 0
  /\ end_markers = 0
  /\ enemy = [e \in EnemyIds |-> [EnemyAt(0, 0, 0) EXCEPT !.exists = FALSE]]
  /\ boss = [BossInit EXCEPT !.exists = FALSE]
  /\ bullets = <<>>
  /\ food = {}
  /\ commands = <<>>
  /\ input = [key_e |-> FALSE, mouse |-> "up"]
  /\ time_delta = 0
  /\ pc = "frame"
  /\ fixed_left = 0
  /\ todo = {}
  /\ snap = NoSnap
  /\ hit_log = <<>>
  /\ explosions = <<>>
  /\ app_exit = 0
  /\ keys = NoKeys
  /\ frames = 0

NextPlay ==
  \/ PlayBeginFrame
  \/ ApplyMovement
  \/ MovementCollisions
  \/ ApplyMovementFixed
  \/ RecordDirectionalInput
  \/ Explode
  \/ ApplyUpdate

SpecPlay == InitPlay /\ [][NextPlay]_vars

(***************************************************************************)
(* enemy.rs update_enemies.  f32::signum is 1.0 for +0.0, which is what    *)
(* the difference of two equal coordinates is.                             *)
(***************************************************************************)
Signum(d) == IF d >= 0 THEN 1 ELSE -1

SpawnGarlicCmd(g) == [op |-> "spawn_garlic", garlic |-> g]

\* Lines 124-141: the bomb an enemy at en lobs at a player dx away.
LobbedGarlic(en, dx) ==
  Mover(en.x, en.y, en.z, GarlicScale10,
        (Abs(dx) * GarlicSpeedFactor) \div RangeMax,
        Signum(dx), GarlicLaunchVy, dx > 0)

\* The facing and the reset of horizontal placed before the aggro test.
UpdateEnemyResetsIdle(en, px, delta) ==
  LET dx == px - en.x
      t == TimerTick(en.garlic_cooldown, delta)
  IN IF Abs(dx) > AggroRange
     THEN [e |-> [en EXCEPT !.facing_right = dx > 0, !.horizontal = 0],
           cmds |-> <<>>]
     ELSE IF Abs(dx) > RangeMax
     THEN [e |-> [en EXCEPT !.facing_right = dx > 0,
                            !.horizontal = Signum(dx)],
           cmds |-> <<>>]
     ELSE IF Abs(dx) < RangeMin
     THEN [e |-> [en EXCEPT !.facing_right = dx > 0,
                            !.horizontal = -Signum(dx)],
           cmds |-> <<>>]
     ELSE [e |-> [en EXCEPT !.facing_right = dx > 0,
                            !.horizontal = 0,
                            !.garlic_cooldown = t],
           cmds |-> IF t.just_finished
                    THEN <<SpawnGarlicCmd(LobbedGarlic(en, dx))>> ELSE <<>>]

\* Lines 105-143: one enemy en, the player at x = px, a frame of delta ms.
UpdateEnemy(en, px, delta) ==
  LET dx == px - en.x
      t == TimerTick(en.garlic_cooldown, delta)
  IN IF Abs(dx) > AggroRange THEN [e |-> en, cmds |-> <<>>]
     ELSE IF Abs(dx) > RangeMax
     THEN [e |-> [en EXCEPT !.facing_right = dx > 0,
                            !.horizontal = Signum(dx)],
           cmds |-> <<>>]
     ELSE IF Abs(dx) < RangeMin
     THEN [e |-> [en EXCEPT !.facing_right = dx > 0,
                            !.horizontal = -Signum(dx)],
           cmds |-> <<>>]
     ELSE [e |-> [en EXCEPT !.facing_right = dx > 0,
                            !.horizontal = 0,
                            !.garlic_cooldown = t],
           cmds |-> IF t.just_finished
                    THEN <<SpawnGarlicCmd(LobbedGarlic(en, dx))>> ELSE <<>>]

RECURSIVE EnemyCommands(_)
EnemyCommands(eorder) ==
  IF eorder = <<>> THEN <<>>
  ELSE UpdateEnemy(enemy[Head(eorder)], player.x, time_delta).cmds
         \o EnemyCommands(Tail(eorder))

UpdateEnemies ==
  /\ Ran("update_enemies")
  /\ enemy' = [e \in EnemyIds |->
                 IF enemy[e].exists
                 THEN UpdateEnemy(enemy[e], player.x, time_delta).e
                 ELSE enemy[e]]
  /\ \E eorder \in Orders(LiveEnemies) :
       commands' = commands \o EnemyCommands(eorder)
  /\ UNCHANGED <<curse_level, gun, player, tier, end_markers, boss, bullets,
                 platforms, food, garlics, explosions, app_exit, keys, frames>>

(***************************************************************************)
(* Two enemies around a standing player: each frame runs the movement      *)
(* chain and then, in either order, the enemies' AI and the explosions.    *)
(***************************************************************************)
Floor == AABBNew(0, -20, 2000, 20)

EnemySystems == {"update_enemies", "explode"}

EnemyBeginFrame ==
  /\ pc = "frame"
  /\ app_exit = 0
  /\ frames < MaxFrames
  /\ frames' = frames + 1
  /\ \E n \in 1..MaxTicksPerFrame :
       /\ time_delta' = n * FixedDtMs
       /\ fixed_left' = n
  /\ todo' = EnemySystems
  /\ pc' = "apply_movement"
  /\ UNCHANGED <<curse_level, gun, player, tier, end_markers, enemy, boss,
                 bullets, platforms, food, commands, input, snap, hit_log,
                 garlics, explosions, app_exit, keys>>

InitEnemy ==
  /\ platforms = {Floor}
  /\ player = [PlayerAt(0, 32, PlayerHealth) EXCEPT !.grounded = TRUE]
  /\ \E x1 \in {1575, 1500, 575, 500, 425, 300, 225, 0},
        x2 \in {-1650, -1501, -501, -500, -400, -300, -299, -75},
        el \in {0, 1000} :
       enemy = [e \in EnemyIds |->
                  [EnemyAt(IF e = 1 THEN x1 ELSE x2, 48, 100) EXCEPT
                     !.grounded = TRUE,
                     !.horizontal = IF e = 2 /\ x2 = -1650 THEN 1 ELSE 0,
                     !.garlic_cooldown.elapsed = el]]
  /\ garlics = <<>>
  /\ curse_level = CurseLevelInit
  /\ gun = GunInit
  /\ tier = 0
  /\ end_markers = 0
  /\ boss = [BossInit EXCEPT !.exists = FALSE]
  /\ bullets = <<>>
  /\ food = {}
  /\ commands = <<>>
  /\ input = [key_e |-> FALSE, mouse |-> "up"]
  /\ time_delta = 0
  /\ pc = "frame"
  /\ fixed_left = 0
  /\ todo = {}
  /\ snap = NoSnap
  /\ hit_log = <<>>
  /\ explosions = <<>>
  /\ app_exit = 0
  /\ keys = NoKeys
  /\ frames = 0

NextEnemy ==
  \/ EnemyBeginFrame
  \/ ApplyMovement
  \/ MovementCollisions
  \/ ApplyMovementFixed
  \/ UpdateEnemies
  \/ Explode
  \/ ApplyUpdate

SpecEnemy == InitEnemy /\ [][NextEnemy]_vars

(***************************************************************************)
(* A few fixed ticks of the movement chain over movers that fall, rise,    *)
(* glide or stand: the player and an enemy, over one platform.             *)
(***************************************************************************)
FallTicks == 3

InitFall ==
  /\ platforms = {Slab}
  /\ \E x \in {0, 400},
        k \in {<<TRUE, TRUE, 0>>, <<TRUE, FALSE, 0>>,
               <<FALSE, TRUE, -((Gravity * GlideTenths) \div 10)>>,
               <<FALSE, FALSE, 50 - TerminalSpeed>>,
               <<FALSE, FALSE, -TerminalSpeed>>,
               <<FALSE, FALSE, JumpForce * JumpBoost>>} :
       player = [PlayerAt(x, 52, PlayerHealth) EXCEPT
                   !.horizontal = 1,
                   !.grounded = k[1],
                   !.gliding = k[2],
                   !.vy = k[3]]
  /\ \E g \in BOOLEAN, x \in {-50, 300} :
       enemy = [e \in EnemyIds |->
                  IF e = 1
                  THEN [EnemyAt(x, 68, 100) EXCEPT
                          !.grounded = g,
                          !.horizontal = -1,
                          !.vy = IF g THEN 0 ELSE 50 - TerminalSpeed]
                  ELSE [EnemyAt(0, 0, 0) EXCEPT !.exists = FALSE]]
  /\ garlics = <<Mover(0, 400, 3, GarlicScale10, 0, 1, GarlicLaunchVy, TRUE)>>
  /\ curse_level = CurseLevelInit
  /\ gun = GunInit
  /\ tier = 0
  /\ end_markers = 0
  /\ boss = [BossInit EXCEPT !.exists = FALSE]
  /\ bullets = <<>>
  /\ food = {}
  /\ commands = <<>>
  /\ input = [key_e |-> FALSE, mouse |-> "up"]
  /\ time_delta = FallTicks * FixedDtMs
  /\ pc = "apply_movement"
  /\ fixed_left = FallTicks
  /\ todo = {}
  /\ snap = NoSnap
  /\ hit_log = <<>>
  /\ explosions = <<>>
  /\ app_exit = 0
  /\ keys = NoKeys
  /\ frames = 0

NextFall ==
  \/ ApplyMovement
  \/ MovementCollisions
  \/ ApplyMovementFixed
  \/ ApplyUpdate

SpecFall == InitFall /\ [][NextFall]_vars

(***************************************************************************)
(* boss.rs move_boss, for the boss bs, the player at x = px, the curse     *)
(* level value and a fixed step of dt ms.                                  *)
(***************************************************************************)
\* Lines 103-122: the bomb the boss drops.
DroppedGarlic(bs, diff) ==
  Mover(bs.x, bs.y, bs.z, GarlicScale10, 0, Signum(diff), -BossDropVy,
        diff > 0)

\* The gate one level early: inactive below 7 only.
MoveBossEarlyGate(bs, px, value, dt) ==
  LET t == TimerTick(bs.move_cooldown, dt)
      b1 == [bs EXCEPT !.move_cooldown = t,
                       !.attacked = IF t.just_finished THEN FALSE ELSE @,
                       !.target_x = IF t.just_finished THEN px ELSE @]
      diff == b1.target_x - b1.x
  IN IF value < BossGate - 1 THEN [b |-> bs, cmds |-> <<>>]
     ELSE IF Abs(diff) >= BossReach
     THEN [b |-> [b1 EXCEPT !.x = @ + Signum(diff) * ((BossSpeed * dt) \div 1000)],
           cmds |-> <<>>]
     ELSE IF ~b1.attacked
     THEN [b |-> [b1 EXCEPT !.attacked = TRUE],
           cmds |-> <<SpawnGarlicCmd(DroppedGarlic(b1, diff))>>]
     ELSE [b |-> b1, cmds |-> <<>>]

\* The attacked flag is never set.
MoveBossForgets(bs, px, value, dt) ==
  LET t == TimerTick(bs.move_cooldown, dt)
      b1 == [bs EXCEPT !.move_cooldown = t,
                       !.attacked = IF t.just_finished THEN FALSE ELSE @,
                       !.target_x = IF t.just_finished THEN px ELSE @]
      diff == b1.target_x - b1.x
  IN IF value < BossGate THEN [b |-> bs, cmds |-> <<>>]
     ELSE IF Abs(diff) >= BossReach
     THEN [b |-> [b1 EXCEPT !.x = @ + Signum(diff) * ((BossSpeed * dt) \div 1000)],
           cmds |-> <<>>]
     ELSE IF ~b1.attacked
     THEN [b |-> b1,
           cmds |-> <<SpawnGarlicCmd(DroppedGarlic(b1, diff))>>]
     ELSE [b |-> b1, cmds |-> <<>>]

\* Lines 87-124.
MoveBossOf(bs, px, value, dt) ==
  LET t == TimerTick(bs.move_cooldown, dt)
      b1 == [bs EXCEPT !.move_cooldown = t,
                       !.attacked = IF t.just_finished THEN FALSE ELSE @,
                       !.target_x = IF t.just_finished THEN px ELSE @]
      diff == b1.target_x - b1.x
  IN IF value < BossGate THEN [b |-> bs, cmds |-> <<>>]
     ELSE IF Abs(diff) >= BossReach
     THEN [b |-> [b1 EXCEPT !.x = @ + Signum(diff) * ((BossSpeed * dt) \div 1000)],
           cmds |-> <<>>]
     ELSE IF ~b1.attacked
     THEN [b |-> [b1 EXCEPT !.attacked = TRUE],
           cmds |-> <<SpawnGarlicCmd(DroppedGarlic(b1, diff))>>]
     ELSE [b |-> b1, cmds |-> <<>>]

\* move_boss is not ordered against the movement chain of the same
\* FixedUpdate run; it reads nothing of a mover but the player's x, and is
\* taken here as running first.
MoveBoss ==
  /\ pc = "move_boss"
  /\ LET r == IF boss.exists
              THEN MoveBossOf(boss, player.x, curse_level.value, FixedDtMs)
              ELSE [b |-> boss, cmds |-> <<>>]
     IN /\ boss' = r.b
        /\ commands' = commands \o r.cmds
  /\ pc' = "apply_movement"
  /\ UNCHANGED <<curse_level, gun, player, tier, end_markers, enemy, bullets,
                 platforms, food, input, time_delta, fixed_left, todo, snap,
                 hit_log, garlics, explosions, app_exit, keys, frames>>

\* The end of a FixedUpdate run with the boss in it.
ApplyBossFixed ==
  /\ pc = "movement_apply"
  /\ ApplyCommands
  /\ snap' = NoSnap
  /\ fixed_left' = fixed_left - 1
  /\ pc' = IF fixed_left > 1 THEN "move_boss" ELSE "update"
  /\ UNCHANGED <<curse_level, gun, player, tier, platforms, input,
                 time_delta, todo, hit_log, app_exit, keys, frames>>

(***************************************************************************)
(* The boss over a player who walks left and right, at a curse level on    *)
(* either side of the gate.                                                *)
(***************************************************************************)
BossBeginFrame ==
  /\ pc = "frame"
  /\ app_exit = 0
  /\ frames < MaxFrames
  /\ frames' = frames + 1
  /\ \E n \in 1..MaxTicksPerFrame, l \in BOOLEAN, r \in BOOLEAN :
       /\ keys' = [left |-> l, right |-> r, space |-> FALSE]
       /\ time_delta' = n * FixedDtMs
       /\ fixed_left' = n
  /\ todo' = PlaySystems
  /\ pc' = "move_boss"
  /\ UNCHANGED <<curse_level, gun, player, tier, end_markers, enemy, boss,
                 bullets, platforms, food, commands, input, snap, hit_log,
                 garlics, explosions, app_exit>>

InitBoss ==
  /\ platforms = {Floor}
  /\ \E x \in {20, 250} :
       player = [PlayerAt(x, 32, PlayerHealth) EXCEPT !.grounded = TRUE]
  /\ \E el \in {0, 750} :
       boss = [BossAt(0, 100, BossHealth) EXCEPT !.move_cooldown.elapsed = el]
  /\ \E v \in {BossGate - 1, BossGate} :
       curse_level = [value |-> v, needs_change |-> FALSE]
  /\ enemy = [e \in EnemyIds |-> [EnemyAt(0, 0, 0) EXCEPT !.exists = FALSE]]
  /\ garlics = <<>>
  /\ gun = GunInit
  /\ tier = 0
  /\ end_markers = 0
  /\ bullets = <<>>
  /\ food = {}
  /\ commands = <<>>
  /\ input = [key_e |-> FALSE, mouse |-> "up"]
  /\ time_delta = 0
  /\ pc = "frame"
  /\ fixed_left = 0
  /\ todo = {}
  /\ snap = NoSnap
  /\ hit_log = <<>>
  /\ explosions = <<>>
  /\ app_exit = 0
  /\ keys = NoKeys
  /\ frames = 0

NextBoss ==
  \/ BossBeginFrame
  \/ MoveBoss
  \/ ApplyMovement
  \/ MovementCollisions
  \/ ApplyBossFixed
  \/ RecordDirectionalInput
  \/ Explode
  \/ ApplyUpdate

SpecBoss == InitBoss /\ [][NextBoss]_vars

(***************************************************************************)
(* Vocabulary of the properties.                                           *)
(***************************************************************************)
\* The collision phase has run and its commands are not applied yet.
AfterCollisions == pc = "fixed_apply" /\ snap.taken

LogOf(i) == SelectSeq(hit_log, LAMBDA ev : ev.bullet = i)
EnemyLog(e) == SelectSeq(hit_log, LAMBDA ev : ev.kind = "enemy" /\ ev.target = e)
BossLog == SelectSeq(hit_log, LAMBDA ev : ev.kind = "boss")
Lethal(log) == SelectSeq(log, LAMBDA ev : ev.health <= 0)
Damaging(log) == SelectSeq(log, LAMBDA ev : ev.kind \in {"enemy", "boss"})

\* The log agrees with what happened to the entities: the k-th hit on a
\* target left it with its health at the start of the phase less 50 k.
LogAgrees ==
  /\ \A e \in EnemyIds :
       /\ \A k \in DOMAIN EnemyLog(e) :
            EnemyLog(e)[k].health = snap.enemy[e].health - 50 * k
       /\ enemy[e].health = snap.enemy[e].health - 50 * Len(EnemyLog(e))
  /\ \A k \in DOMAIN BossLog : BossLog[k].health = snap.boss.health - 50 * k
  /\ boss.health = snap.boss.health - 50 * Len(BossLog)

Expired(i) == bullets[i].despawn_timer.just_finished

ReconcileStep ==
  pc = "update" /\ "curse_level_change" \in todo
    /\ "curse_level_change" \notin todo'

EatStep == pc = "update" /\ "eat" \in todo /\ "eat" \notin todo'

EndEmitted == end_markers + CountIn(commands, SpawnEndCmd)

LethalHits(log, kind) ==
  Len(SelectSeq(log, LAMBDA ev : ev.kind = kind /\ ev.health <= 0))

(***************************************************************************)
(* C1.  Platform before enemy before boss: a live bullet that overlaps a   *)
(* platform does nothing but despawn, whatever else it overlaps; when      *)
(* every live bullet is blocked the enemies, the boss and the curse level  *)
(* are as they were; and a bullet reaches the boss only when it overlaps   *)
(* no enemy.                                                               *)
(***************************************************************************)
C1_PlatformFirst ==
  AfterCollisions =>
    /\ LogAgrees
    /\ \A i \in DOMAIN bullets :
         (~Expired(i) /\ HitsPlatform(bullets[i])) =>
           /\ Len(LogOf(i)) = 1
           /\ LogOf(i)[1].kind = "platform"
           /\ CountIn(commands, Despawn("bullet", i)) = 1
    /\ (\A i \in DOMAIN bullets : Expired(i) \/ HitsPlatform(bullets[i])) =>
         /\ enemy = snap.enemy
         /\ boss = snap.boss
         /\ curse_level = snap.curse
    /\ \A k \in DOMAIN BossLog :
         \A e \in EnemyIds :
           ~(snap.enemy[e].exists
               /\ HitsEnemy(enemy[e], bullets[BossLog[k].bullet]))

C1_Witness ==
  /\ AfterCollisions
  /\ \E i \in DOMAIN bullets :
       /\ ~Expired(i)
       /\ HitsPlatform(bullets[i])
       /\ enemy[1].exists /\ HitsEnemy(enemy[1], bullets[i])
       /\ boss.exists /\ HitsBoss(boss, bullets[i])
       /\ CountIn(commands, Despawn("bullet", i)) = 1
       /\ enemy = snap.enemy /\ boss = snap.boss

(***************************************************************************)
(* C2.  Every hit that leaves an enemy with health <= 0 queues the despawn *)
(* of that enemy and of the bullet, adds exactly 1 to the curse level and  *)
(* sets needs_change, all within the collision phase of that tick.         *)
(***************************************************************************)
C2_EnemyKill ==
  AfterCollisions =>
    /\ LogAgrees
    /\ \A e \in EnemyIds :
         /\ CountIn(commands, Despawn("enemy", e)) = Len(Lethal(EnemyLog(e)))
         /\ \A k \in DOMAIN EnemyLog(e) :
              EnemyLog(e)[k].health <= 0 =>
                /\ CountIn(commands, Despawn("bullet", EnemyLog(e)[k].bullet)) = 1
                /\ curse_level.needs_change
    /\ curse_level.value - 100 * LethalHits(hit_log, "boss")
         = snap.curse.value + LethalHits(hit_log, "enemy")

C2_Witness ==
  /\ AfterCollisions
  /\ \E e \in EnemyIds :
       /\ snap.enemy[e].health = 50
       /\ enemy[e].health = 0
       /\ CountIn(commands, Despawn("enemy", e)) = 1
  /\ curse_level.value = snap.curse.value + 1
  /\ curse_level.needs_change

(***************************************************************************)
(* C3.  Every hit that leaves the boss with health <= 0 queues the despawn *)
(* of the boss and of the bullet, adds exactly 100 to the curse level and  *)
(* sets needs_change.                                                      *)
(***************************************************************************)
C3_BossKill ==
  AfterCollisions =>
    /\ LogAgrees
    /\ CountIn(commands, Despawn("boss", 0)) = Len(Lethal(BossLog))
    /\ \A k \in DOMAIN BossLog :
         BossLog[k].health <= 0 =>
           /\ CountIn(commands, Despawn("bullet", BossLog[k].bullet)) = 1
           /\ curse_level.needs_change
    /\ curse_level.value - LethalHits(hit_log, "enemy")
         = snap.curse.value + 100 * LethalHits(hit_log, "boss")

C3_Witness ==
  /\ AfterCollisions
  /\ snap.boss.health > 0
  /\ boss.health <= 0
  /\ CountIn(commands, Despawn("boss", 0)) = 1
  /\ curse_level.value = snap.curse.value + 100
  /\ curse_level.needs_change

(***************************************************************************)
(* C4.  No hit lands on an entity that an earlier bullet of the same tick  *)
(* has already brought to health <= 0: a death is the last hit its target  *)
(* takes, queues one despawn and counts once in the curse level.           *)
(***************************************************************************)
Died(before, after) == before.health > 0 /\ after.health <= 0

C5_Monotone ==
  [][LET v == curse_level.value
         w == curse_level'.value
         pickup == EatStep /\ GunEaten /\ w = 1
     IN /\ w >= v \/ pickup
        /\ w # v =>
             \/ pickup
             \/ /\ pc = "handle_collisions"
                /\ w = v + LethalHits(hit_log', "enemy")
                         + 100 * LethalHits(hit_log', "boss")]_vars

C5_Witness == gun.enabled /\ curse_level.value >= 102

(***************************************************************************)
(* C6.  The reconciliation clears needs_change, a run that finds it clear  *)
(* changes nothing, and so a second run right after any run is a no-op.    *)
(***************************************************************************)
C6_Idempotent ==
  [][ReconcileStep =>
       LET again == Reconcile(curse_level', gun', tier')
       IN /\ ~curse_level'.needs_change
          /\ again.curse = curse_level'
          /\ again.gun = gun'
          /\ again.tier = tier'
          /\ again.cmds = <<>>
          /\ ~curse_level.needs_change =>
               /\ curse_level' = curse_level
               /\ gun' = gun
               /\ tier' = tier
               /\ commands' = commands
               /\ end_markers' = end_markers]_vars

\* The reconciliation has run in this frame and found nothing to do, after
\* a run of an earlier frame spawned the end marker.
C6_Witness ==
  /\ pc = "update"
  /\ "curse_level_change" \notin todo
  /\ curse_level.value > 100
  /\ end_markers >= 1
  /\ CountIn(commands, SpawnEndCmd) = 0
  /\ ~curse_level.needs_change

(***************************************************************************)
(* C7.  After a reconciliation that found needs_change set, the grass      *)
(* shows tier 0 for value 0, tier 1 for value 1, tier 2 for values 2..6    *)
(* and tier 3 for values 7 and above.                                      *)
(***************************************************************************)
C7_TierBands ==
  "curse_level_change" \notin todo =>
    tier = CASE curse_level.value = 0 -> 0
             [] curse_level.value = 1 -> 1
             [] curse_level.value \in 2..6 -> 2
             [] curse_level.value >= 7 -> 3

C7_Witness ==
  /\ "curse_level_change" \notin todo
  /\ curse_level.value = 7
  /\ tier = 3
  /\ ~curse_level.needs_change

(***************************************************************************)
(* C8.  The gun's cooldown starts at 0.8 s, changes only in a              *)
(* reconciliation that finds needs_change set with value >= 2, which makes *)
(* it 0.1 s, and once 0.1 s it stays 0.1 s.                                *)
(***************************************************************************)
C8_FastFireRatchet ==
  /\ gun.shooting_cooldown.duration = 800
  /\ [][LET d == gun.shooting_cooldown.duration
            d2 == gun'.shooting_cooldown.duration
            fast == ReconcileStep /\ curse_level.needs_change
                      /\ curse_level.value >= 2
        IN /\ d = 100 => d2 = 100
           /\ fast => d2 = 100
           /\ d2 # d => fast]_vars

\* Fast fire was set by the reconciliation of an enemy's death and outlived
\* the reconciliation of the boss's.
C8_Witness ==
  /\ gun.shooting_cooldown.duration = 100
  /\ end_markers >= 1
  /\ ~curse_level.needs_change

(***************************************************************************)
(* C9.  As claimed: over a whole session the end marker is spawned at most *)
(* once.                                                                   *)
(***************************************************************************)
C9_EndOnce == EndEmitted <= 1

(***************************************************************************)
(* C9, amended.  The end marker is spawned exactly once by every           *)
(* reconciliation that finds needs_change set with value > 100, and by     *)
(* nothing else.                                                           *)
(***************************************************************************)
C9_EndPerReconciliation ==
  [][EndEmitted' = EndEmitted
       + (IF ReconcileStep /\ curse_level.needs_change
               /\ curse_level.value > 100
          THEN 1 ELSE 0)]_vars

C9_Witness == end_markers = 2

(***************************************************************************)
(* C10.  In one collision phase a bullet has at most one effect: it        *)
(* expires, or is blocked, or damages one target, and its despawn is       *)
(* queued exactly when it has had that effect.                             *)
(***************************************************************************)
C10_OneEffect ==
  AfterCollisions =>
    /\ LogAgrees
    /\ \A i \in DOMAIN bullets :
         /\ Len(LogOf(i)) <= 1
         /\ CountIn(commands, Despawn("bullet", i)) = Len(LogOf(i))
    /\ \A k \in DOMAIN hit_log : hit_log[k].bullet \in DOMAIN bullets

C10_Witness ==
  /\ AfterCollisions
  /\ \E i \in DOMAIN bullets :
       /\ snap.enemy[1].exists /\ HitsEnemy(enemy[1], bullets[i])
       /\ snap.boss.exists /\ HitsBoss(boss, bullets[i])
       /\ Len(Damaging(LogOf(i))) = 1
       /\ CountIn(commands, Despawn("bullet", i)) = 1

(***************************************************************************)
(* C11.  A bullet whose lifetime timer fires in a collision phase is       *)
(* despawned and does nothing else in that phase, whatever it overlaps:    *)
(* its only effect is the expiry, and when every bullet of the phase       *)
(* expires the enemies, the boss and the curse level are as they were.     *)
(***************************************************************************)
C11_ExpiryNoDamage ==
  AfterCollisions =>
    /\ LogAgrees
    /\ \A i \in DOMAIN bullets :
         Expired(i) =>
           /\ LogOf(i) = <<LogEntry(i, "expired", 0, 0)>>
           /\ CountIn(commands, Despawn("bullet", i)) = 1
           /\ bullets[i].despawn_timer.elapsed = BulletLifetimeMs
    /\ (\A i \in DOMAIN bullets : Expired(i)) =>
         /\ enemy = snap.enemy
         /\ boss = snap.boss
         /\ curse_level = snap.curse

\* A bullet expires while it overlaps the far wall.
C11_Witness ==
  /\ AfterCollisions
  /\ \E i \in DOMAIN bullets :
       /\ Expired(i)
       /\ HitsPlatform(bullets[i])
       /\ LogOf(i) = <<LogEntry(i, "expired", 0, 0)>>
       /\ CountIn(commands, Despawn("bullet", i)) = 1

(***************************************************************************)
(* Vocabulary of the terrain properties: the movers of the last run of the *)
(* terrain collision, each as it was before the run and as it is after it. *)
(***************************************************************************)
AfterTerrain == pc = "movement_apply" /\ snap.taken

Resolved ==
  {<<snap.player, player>>}
    \cup {<<snap.garlics[i], garlics[i]>> : i \in DOMAIN garlics}
    \cup {<<snap.enemy[e], enemy[e]>> : e \in {f \in EnemyIds : snap.enemy[f].exists}}

InRange(b) == {p \in platforms : Overlaps(MoverAABB(b), p)}

DepthAt(b, p) == GetIntersectionDepth(MoverAABB(b), p)

Landing(d) == d.y > 0 /\ d.y <= 24

(***************************************************************************)
(* C12.  After the terrain collision of a fixed tick, a mover that no      *)
(* platform passed the overlap test with is not grounded and is otherwise  *)
(* as it was; a mover that ends higher than it began was corrected upward  *)
(* and is grounded with jump_timer = 0; and against a single platform     *)
(* without a horizontal snap, a vertical depth in (0, 24] lifts the mover  *)
(* by that depth and grounds it.                                           *)
(***************************************************************************)
C12_Grounding ==
  AfterTerrain =>
    \A pr \in Resolved :
      LET b == pr[1]
          a == pr[2]
      IN /\ InRange(b) = {} => a = [b EXCEPT !.grounded = FALSE]
         /\ a.y > b.y => a.grounded /\ a.jump_timer = 0 /\ a.vy = 0
         /\ \A p \in platforms :
              (platforms = {p} /\ p \in InRange(b)
                 /\ Abs(DepthAt(b, p).x) > 8 /\ Landing(DepthAt(b, p))) =>
                /\ a.y = b.y + DepthAt(b, p).y
                /\ a.x = b.x
                /\ a.grounded
                /\ a.jump_timer = 0

\* The player lands (it was airborne with a running glide budget) while the
\* bomb, out of range of every platform, stays airborne.
C12_Witness ==
  /\ AfterTerrain
  /\ ~snap.player.grounded /\ snap.player.jump_timer > 0
  /\ player.y > snap.player.y
  /\ player.grounded /\ player.jump_timer = 0
  /\ InRange(snap.garlics[1]) = {}
  /\ ~garlics[1].grounded

(***************************************************************************)
(* C13.  Against a single platform with |depth.x| <= 8 and |depth.y| <=    *)
(* 24, the mover is first moved by depth.x with velocity.x = 0, and the    *)
(* vertical correction is made with the depth found again at the corrected *)
(* position.                                                               *)
(***************************************************************************)
C13_HorizontalFirst ==
  AfterTerrain =>
    \A pr \in Resolved : \A p \in platforms :
      LET b == pr[1]
          a == pr[2]
          d0 == DepthAt(b, p)
          d1 == DepthAt([b EXCEPT !.x = @ + d0.x], p)
      IN (platforms = {p} /\ p \in InRange(b)
            /\ Abs(d0.x) <= 8 /\ Abs(d0.y) <= 24) =>
           /\ a.x = b.x + d0.x
           /\ a.vx = 0
           /\ a.y = b.y + d1.y
           /\ a.vy = 0
           /\ a.grounded = (Landing(d1) \/ b.grounded)
           /\ a.jump_timer = IF Landing(d1) THEN 0 ELSE b.jump_timer

\* The player overlapped the corner of the platform by a depth that would
\* have landed it; the horizontal snap came first and left it where it was
\* vertically, airborne.
C13_Witness ==
  /\ AfterTerrain
  /\ \E p \in platforms :
       /\ platforms = {p}
       /\ p \in InRange(snap.player)
       /\ DepthAt(snap.player, p).x # 0
       /\ Abs(DepthAt(snap.player, p).x) <= 8
       /\ Landing(DepthAt(snap.player, p))
       /\ player.x = snap.player.x + DepthAt(snap.player, p).x
       /\ player.y = snap.player.y
       /\ ~snap.player.grounded /\ ~player.grounded

(***************************************************************************)
(* C14.  In the terrain collision of a fixed tick a bomb that passed the   *)
(* overlap test with a platform queues one Explosion at its position and   *)
(* its own despawn; a bomb that passed it with none, and every mover that  *)
(* is not a bomb, queues nothing.                                          *)
(***************************************************************************)
HitGarlics == {i \in DOMAIN garlics : InRange(snap.garlics[i]) # {}}

C14_BombDetonates ==
  AfterTerrain =>
    /\ \A i \in DOMAIN garlics :
         IF i \in HitGarlics
         THEN /\ CountIn(commands, Despawn("garlic", i)) = 1
              /\ CountIn(commands, SpawnExplosionCmd(garlics[i])) >= 1
         ELSE CountIn(commands, Despawn("garlic", i)) = 0
    /\ Len(SelectSeq(commands, LAMBDA c : c.op = "spawn_explosion"))
         = Cardinality(HitGarlics)
    /\ Len(commands) = 2 * Cardinality(HitGarlics)

\* A bomb lands on the platform and is lifted onto it: the Explosion is
\* queued where the bomb ends, the player, on the platform too, queues none.
C14_Witness ==
  /\ AfterTerrain
  /\ HitGarlics = {1}
  /\ garlics[1].y > snap.garlics[1].y
  /\ InRange(snap.player) # {}
  /\ commands = <<SpawnExplosionCmd(garlics[1]), Despawn("garlic", 1)>>

(***************************************************************************)
(* Vocabulary of the explosion and input properties.                       *)
(***************************************************************************)
ExplodeStep == pc = "update" /\ "explode" \in todo /\ "explode" \notin todo'

InputStep ==
  /\ pc = "update"
  /\ "record_player_directional_input" \in todo
  /\ "record_player_directional_input" \notin todo'

Blasts == {i \in DOMAIN explosions : InBlast(player, explosions[i])}

(***************************************************************************)
(* C15.  An Explosion lives for one frame: the explode step queues the     *)
(* despawn of every Explosion there is, in the player's reach or not, and  *)
(* takes 40 from the player's health for each one in reach; no Explosion   *)
(* is left when the next frame begins, so none is processed twice.         *)
(***************************************************************************)
NoneLeft == pc = "frame" => explosions = <<>>

C15_SingleTick ==
  /\ []NoneLeft
  /\ [][/\ ExplodeStep =>
             (/\ \A i \in DOMAIN explosions :
                   CountIn(commands', Despawn("explosion", i)) = 1
              /\ player'.health = player.health - 40 * Cardinality(Blasts))
        /\ player'.health # player.health => ExplodeStep]_vars

\* Two Explosions were processed in one frame, one in reach of the player
\* and one out of it: both despawns are queued and 40 is taken once.
C15_Witness ==
  /\ pc = "update"
  /\ "explode" \notin todo
  /\ Len(explosions) = 2
  /\ Cardinality(Blasts) = 1
  /\ CountIn(commands, Despawn("explosion", 1)) = 1
  /\ CountIn(commands, Despawn("explosion", 2)) = 1
  /\ player.health \in {PlayerHealth - 40, PlayerHealth - 120}

(***************************************************************************)
(* C16.  AppExit is written only by the explode step, one for each hit     *)
(* that leaves the player's health at 0 or below, and so only when that    *)
(* health is <= 0; no despawn of the player is ever queued, and the        *)
(* player is still there when the session has ended.                       *)
(***************************************************************************)
PlayerKept ==
  /\ app_exit > 0 => player.health <= 0
  /\ \A k \in DOMAIN commands :
       commands[k].op = "despawn" => commands[k].kind \in {"garlic", "explosion"}

C16_DepletionEndsSession ==
  /\ []PlayerKept
  /\ [][/\ app_exit' # app_exit => (ExplodeStep /\ player'.health <= 0)
        /\ (ExplodeStep /\ player'.health <= 0 /\ Blasts # {}) =>
             app_exit' > app_exit]_vars

\* An explosion took the player's last health: AppExit is written and the
\* player, still a mover, is not among the despawns.
C16_Witness ==
  /\ app_exit = 1
  /\ player.health = -20
  /\ pc = "frame"
  /\ commands = <<>>

(***************************************************************************)
(* C20.  As claimed: after an input step the gliding flag is set only if,  *)
(* at that step, the player was airborne, falling and within the glide     *)
(* budget.                                                                 *)
(***************************************************************************)
C20_GlideOnlyAirborne ==
  [][InputStep =>
       (player'.gliding =>
          ~player.grounded /\ player.vy < 0
            /\ player.jump_timer < JumpTimeMs)]_vars

(***************************************************************************)
(* Vocabulary of the enemy properties.                                     *)
(***************************************************************************)
AiStep ==
  pc = "update" /\ "update_enemies" \in todo /\ "update_enemies" \notin todo'

Dx(e) == player.x - enemy[e].x

Aware(e) == enemy[e].exists /\ Abs(Dx(e)) <= 1500

Engaged(e) == Aware(e) /\ Abs(Dx(e)) >= 300 /\ Abs(Dx(e)) <= 500

\* The enemies whose cooldown completes in this step.
Lobbing == {e \in EnemyIds : Engaged(e) /\ enemy'[e].garlic_cooldown.just_finished}

NewCommands == SubSeq(commands', Len(commands) + 1, Len(commands'))

\* What the AI step does but for the direction of the approach and of the
\* retreat: facing, the stand in the band, the cooldown and the bombs.
BandsBut ==
  /\ \A e \in EnemyIds :
       /\ Aware(e) => enemy'[e].facing_right = (Dx(e) > 0)
       /\ Engaged(e) =>
            /\ enemy'[e].horizontal = 0
            /\ enemy'[e].garlic_cooldown.elapsed
                 = (enemy[e].garlic_cooldown.elapsed + time_delta) % 1200
            /\ enemy'[e].garlic_cooldown.just_finished
                 = (enemy[e].garlic_cooldown.elapsed + time_delta >= 1200)
       /\ ~Engaged(e) => enemy'[e].garlic_cooldown = enemy[e].garlic_cooldown
  /\ Len(NewCommands) = Cardinality(Lobbing)
  /\ \A e \in Lobbing :
       \E k \in DOMAIN NewCommands :
         /\ NewCommands[k].op = "spawn_garlic"
         /\ NewCommands[k].garlic.x = enemy[e].x
         /\ NewCommands[k].garlic.y = enemy[e].y

(***************************************************************************)
(* C17.  As claimed, with sign(0) = 0: within 1500 of the player an enemy   *)
(* faces it, approaches by sign(dx) beyond 500, retreats by -sign(dx)      *)
(* within 300, and stands in between, where alone its 1.2 s cooldown runs  *)
(* and lobs a bomb at each completion.                                     *)
(***************************************************************************)
C17_Bands ==
  [][AiStep =>
       /\ BandsBut
       /\ \A e \in EnemyIds :
            LET sign == IF Dx(e) > 0 THEN 1 ELSE IF Dx(e) < 0 THEN -1 ELSE 0
            IN /\ (Aware(e) /\ Abs(Dx(e)) > 500) =>
                    enemy'[e].horizontal = sign
               /\ (Aware(e) /\ Abs(Dx(e)) < 300) =>
                    enemy'[e].horizontal = -sign]_vars

(***************************************************************************)
(* C17, the rest.  The same, with the direction taken as +1 when dx >= 0   *)
(* and -1 when dx < 0: an enemy at the player's own x (dx = 0) retreats    *)
(* with horizontal = -1, and beyond 1500 the step leaves the enemy as it   *)
(* is.                                                                     *)
(***************************************************************************)
C17_BandsSignum ==
  [][AiStep =>
       /\ BandsBut
       /\ \A e \in EnemyIds :
            /\ (Aware(e) /\ Abs(Dx(e)) > 500) =>
                 enemy'[e].horizontal = (IF Dx(e) >= 0 THEN 1 ELSE -1)
            /\ (Aware(e) /\ Abs(Dx(e)) < 300) =>
                 enemy'[e].horizontal = (IF Dx(e) >= 0 THEN -1 ELSE 1)
            /\ (enemy[e].exists /\ ~Aware(e)) => enemy'[e] = enemy[e]]_vars

\* After an AI step: one enemy stands on the edge of the band, |dx| = 500,
\* and has just lobbed a bomb; the other is at the player's x and retreats.
C17_Witness ==
  /\ pc = "update"
  /\ "update_enemies" \notin todo
  /\ \E e \in EnemyIds :
       /\ enemy[e].exists
       /\ Abs(Dx(e)) = 500
       /\ enemy[e].horizontal = 0
       /\ enemy[e].garlic_cooldown.just_finished
       /\ \E k \in DOMAIN commands :
            /\ commands[k].op = "spawn_garlic"
            /\ commands[k].garlic.x = enemy[e].x
  /\ \E e \in EnemyIds :
       /\ enemy[e].exists
       /\ Dx(e) = 0
       /\ enemy[e].horizontal = -1

(***************************************************************************)
(* Vocabulary of the boss properties.                                      *)
(***************************************************************************)
BossStep == pc = "move_boss" /\ pc' = "apply_movement"

Dropped == Len(commands') - Len(commands)

Retargets == boss'.move_cooldown.just_finished

(***************************************************************************)
(* C18.  While the curse level is below 8 the boss step changes nothing:   *)
(* the boss's position, target_x, attacked flag and retarget timer are as  *)
(* they were and no bomb is queued.                                        *)
(***************************************************************************)
C18_BossGate ==
  [][(BossStep /\ curse_level.value < 8) =>
       /\ boss' = boss
       /\ commands' = commands
       /\ garlics' = garlics]_vars

\* Every frame has run at curse level 7 and the boss, part of the way into
\* its retarget period, has not stirred.
C18_Witness ==
  /\ curse_level.value = 7
  /\ frames = MaxFrames
  /\ pc = "frame"
  /\ boss.x = 0 /\ boss.target_x = 0 /\ ~boss.attacked
  /\ boss.move_cooldown.elapsed = 750
  /\ player.x # 250 /\ player.x # 20
  /\ garlics = <<>> /\ explosions = <<>>

(***************************************************************************)
(* C19.  With the gate open, a boss step drops at most one bomb, and only  *)
(* when, after any retarget of that step, |target_x - x| < 30 and attacked *)
(* is false; it then sets attacked, which only a completion of the 1 s     *)
(* retarget timer clears, capturing the player's x as target_x.  So        *)
(* between two completions there is at most one bomb.                      *)
(***************************************************************************)
C19_OneAttackPerCycle ==
  [][(BossStep /\ boss.exists /\ curse_level.value >= 8) =>
       /\ Dropped \in {0, 1}
       /\ Dropped = 1 =>
            /\ Abs(boss'.target_x - boss.x) < 30
            /\ ~boss.attacked \/ Retargets
            /\ boss'.attacked
            /\ boss'.x = boss.x
            /\ commands'[Len(commands')].op = "spawn_garlic"
       /\ (boss.attacked /\ ~Retargets) => (Dropped = 0 /\ boss'.attacked)
       /\ boss'.attacked => (boss.attacked \/ Dropped = 1)
       /\ boss'.target_x = IF Retargets THEN player.x ELSE boss.target_x
       /\ (Abs(boss'.target_x - boss.x) < 30 /\ (~boss.attacked \/ Retargets))
            => Dropped = 1]_vars

\* The boss retargeted, walked to the player and has just dropped its bomb
\* there.
C19_Witness ==
  /\ pc = "apply_movement"
  /\ curse_level.value >= 8
  /\ boss.attacked
  /\ boss.x = 250 /\ boss.target_x = 250
  /\ Len(commands) = 1
  /\ commands[1].op = "spawn_garlic"
  /\ commands[1].garlic.x = boss.x

(***************************************************************************)
(* C21.  As claimed: the direction of a zero difference is 0.  An enemy at *)
(* the player's own x (dx = 0) is left with horizontal = 0 by the AI step, *)
(* and a boss standing on its target (target_x = x) drops its bomb with    *)
(* horizontal = 0.                                                         *)
(***************************************************************************)
C21_NeutralSign ==
  [][/\ AiStep =>
          \A e \in EnemyIds :
            (Aware(e) /\ Dx(e) = 0) => enemy'[e].horizontal = 0
     /\ (BossStep /\ Dropped = 1 /\ boss'.target_x = boss.x) =>
          commands'[Len(commands')].garlic.horizontal = 0]_vars

(***************************************************************************)
(* C22.  Death is detected by health <= 0 within the tick of the hit.      *)
(* Wherever the commands of the collision phase are not pending, every     *)
(* enemy and boss that exists has health > 0; while they are pending,      *)
(* every enemy and boss with health <= 0 has its despawn among them.       *)
(***************************************************************************)
C22_NoDeadSurvivor ==
  /\ pc # "fixed_apply" =>
       /\ \A e \in EnemyIds : enemy[e].exists => enemy[e].health > 0
       /\ boss.exists => boss.health > 0
  /\ pc = "fixed_apply" =>
       /\ \A e \in EnemyIds :
            (enemy[e].exists /\ enemy[e].health <= 0) =>
              CountIn(commands, Despawn("enemy", e)) >= 1
       /\ (boss.exists /\ boss.health <= 0) =>
            CountIn(commands, Despawn("boss", 0)) >= 1

\* The fixed tick is over: one enemy was brought to 0 in it and is gone,
\* the other lives on with 50.
C22_Witness ==
  /\ pc = "update"
  /\ todo = UpdateSystems
  /\ curse_level.needs_change
  /\ ~enemy[1].exists
  /\ enemy[2].exists /\ enemy[2].health = 50
  /\ boss.exists

(***************************************************************************)
(* C23.  As claimed: once the curse level is above 100, every run of the   *)
(* reconciliation step spawns the end marker.                              *)
(***************************************************************************)
C23_EndEveryRun ==
  [][(ReconcileStep /\ curse_level.value > 100) =>
       commands' = Append(commands, SpawnEndCmd)]_vars

(***************************************************************************)
(* C23, amended.  Once the curse level is above 100, a run of the          *)
(* reconciliation step spawns the end marker when it finds needs_change    *)
(* set, every time and not only the first; a run that finds needs_change   *)
(* clear spawns nothing.                                                   *)
(***************************************************************************)
C23_EndEveryDirtyRun ==
  [][(ReconcileStep /\ curse_level.value > 100) =>
       commands' = IF curse_level.needs_change
                   THEN Append(commands, SpawnEndCmd)
                   ELSE commands]_vars

\* A marker stands from an earlier frame, the curse level is still above
\* 100, and this frame's reconciliation has run and queued no other.
C23_Witness ==
  /\ pc = "update"
  /\ "curse_level_change" \notin todo
  /\ curse_level.value > 100
  /\ ~curse_level.needs_change
  /\ end_markers = 1
  /\ CountIn(commands, SpawnEndCmd) = 0

(***************************************************************************)
(* C24.  A hit that leaves its target with health > 0 takes exactly 50     *)
(* from that target and queues the despawn of the bullet and of nothing    *)
(* else: a target with no lethal hit in the phase has no despawn queued,   *)
(* and when no hit of the phase is lethal the curse level and its          *)
(* needs_change flag are as they were.  Every entity's health is its       *)
(* health before the phase less 50 for each hit it took.                   *)
(***************************************************************************)
C24_NonLethalHit ==
  AfterCollisions =>
    /\ LogAgrees
    /\ \A k \in DOMAIN hit_log :
         (hit_log[k].kind \in {"enemy", "boss"} /\ hit_log[k].health > 0) =>
           CountIn(commands, Despawn("bullet", hit_log[k].bullet)) = 1
    /\ \A e \in EnemyIds :
         Lethal(EnemyLog(e)) = <<>> =>
           CountIn(commands, Despawn("enemy", e)) = 0
    /\ Lethal(BossLog) = <<>> => CountIn(commands, Despawn("boss", 0)) = 0
    /\ Lethal(Damaging(hit_log)) = <<>> => curse_level = snap.curse

\* One bullet took an enemy from 100 to 50; the other enemy and the boss
\* were not hit.
C24_Witness ==
  /\ AfterCollisions
  /\ Len(hit_log) = 1
  /\ hit_log[1].kind = "enemy" /\ hit_log[1].target = 2
  /\ snap.enemy[2].health = 100 /\ enemy[2].health = 50
  /\ enemy[1] = snap.enemy[1] /\ enemy[1].exists
  /\ boss = snap.boss
  /\ curse_level = snap.curse
  /\ commands = <<Despawn("bullet", hit_log[1].bullet)>>

(***************************************************************************)
(* C25.  A depth above the threshold is not corrected on its axis.  For a  *)
(* mover in range of one platform p only: with |depth.x| > 8 its x and     *)
(* velocity.x are as they were, and with |depth.y| > 24, for the depth the *)
(* vertical test sees, its y, velocity.y, grounded and jump_timer are as   *)
(* they were; the pair counts as a collision all the same, so grounded is  *)
(* not cleared and a bomb queues its Explosion and its despawn.            *)
(***************************************************************************)
C25_DeepNotCorrected ==
  AfterTerrain =>
    /\ \A pr \in Resolved : \A p \in platforms :
         LET b == pr[1]
             a == pr[2]
             d0 == DepthAt(b, p)
             dv == IF Abs(d0.x) <= 8
                   THEN DepthAt([b EXCEPT !.x = @ + d0.x], p) ELSE d0
         IN InRange(b) = {p} =>
              /\ Abs(d0.x) > 8 => (a.x = b.x /\ a.vx = b.vx)
              /\ Abs(dv.y) > 24 =>
                   /\ a.y = b.y
                   /\ a.vy = b.vy
                   /\ a.grounded = b.grounded
                   /\ a.jump_timer = b.jump_timer
    /\ \A i \in DOMAIN garlics : \A p \in platforms :
         (InRange(snap.garlics[i]) = {p}
            /\ Abs(DepthAt(snap.garlics[i], p).x) > 8
            /\ Abs(DepthAt(snap.garlics[i], p).y) > 24) =>
           /\ CountIn(commands, Despawn("garlic", i)) = 1
           /\ CountIn(commands, SpawnExplosionCmd(snap.garlics[i])) = 1

\* The player, grounded, and the bomb both sit deep inside the platform on
\* both axes: neither is moved, the player stays grounded and the bomb
\* blows up where it is.
C25_Witness ==
  /\ AfterTerrain
  /\ \E p \in platforms :
       /\ InRange(snap.player) = {p}
       /\ Abs(DepthAt(snap.player, p).x) > 8
       /\ Abs(DepthAt(snap.player, p).y) > 24
       /\ InRange(snap.garlics[1]) = {p}
       /\ Abs(DepthAt(snap.garlics[1], p).x) > 8
       /\ Abs(DepthAt(snap.garlics[1], p).y) > 24
  /\ snap.player.grounded /\ snap.player.jump_timer > 0
  /\ player = snap.player
  /\ garlics[1] = snap.garlics[1]
  /\ commands = <<SpawnExplosionCmd(garlics[1]), Despawn("garlic", 1)>>

(***************************************************************************)
(* C26.  As claimed: a bomb that overlaps another mover in the collision   *)
(* step of a fixed tick queues one Explosion at its position and its own   *)
(* despawn, also when it is in range of no platform.                       *)
(***************************************************************************)
C26_MoverImpact ==
  AfterTerrain =>
    \A i \in DOMAIN garlics :
      (\E pr \in Resolved :
         /\ pr[1] # snap.garlics[i]
         /\ GetIntersectionDepth(MoverAABB(snap.garlics[i]), MoverAABB(pr[1]))
              # Vec2Zero) =>
        /\ CountIn(commands, Despawn("garlic", i)) = 1
        /\ CountIn(commands, SpawnExplosionCmd(garlics[i])) = 1

(***************************************************************************)
(* Vocabulary of the integration property: the movers before and after a   *)
(* step.                                                                   *)
(***************************************************************************)
IntegrationStep == pc = "apply_movement" /\ pc' = "movement_collisions"

Integrated ==
  {<<player, player'>>}
    \cup {<<garlics[i], garlics'[i]>> : i \in DOMAIN garlics}
    \cup {<<enemy[e], enemy'[e]>> : e \in {f \in EnemyIds : enemy[f].exists}}

(***************************************************************************)
(* C27.  After a movement-integration step every mover has velocity.y >=   *)
(* -1500, and a grounded mover keeps its velocity.y (and its glide         *)
(* budget): neither gravity nor gliding acts on it.                        *)
(***************************************************************************)
C27_TerminalVelocity ==
  [][IntegrationStep =>
       \A pr \in Integrated :
         /\ pr[2].vy >= -1500
         /\ pr[1].grounded =>
              (pr[2].vy = pr[1].vy /\ pr[2].jump_timer = pr[1].jump_timer)]_vars

\* After a step: the player, who fell at 1450, now falls at the terminal
\* 1500 (gravity alone would give 1550), while the enemy stands grounded
\* with velocity.y = 0.
C27_Witness ==
  /\ pc = "movement_collisions"
  /\ fixed_left = FallTicks
  /\ ~player.grounded /\ ~player.gliding
  /\ player.vy = -1500
  /\ player.y = 52 + (-1500 * FixedDtMs) \div 1000
  /\ enemy[1].grounded /\ enemy[1].vy = 0

(***************************************************************************)
(* C28.  As claimed: the AI of the enemies, the AI of the boss and the     *)
(* reconciliation run only in the per-frame phase, when the fixed ticks of *)
(* the frame are over, and each at most once in a frame.                   *)
(***************************************************************************)
C28_AiAfterFixedTicks ==
  [][(AiStep \/ BossStep \/ ReconcileStep) =>
       (fixed_left = 0 /\ pc = "update")]_vars

(***************************************************************************)
(* C29.  As claimed: an AI step, of an enemy or of the boss, writes no     *)
(* position and no terrain; it leaves the platforms, the player and every  *)
(* mover's place and velocity as they were.                                *)
(***************************************************************************)
C29_AiWritesIntentOnly ==
  [][(AiStep \/ BossStep) =>
       /\ platforms' = platforms
       /\ player' = player
       /\ garlics' = garlics
       /\ boss'.x = boss.x /\ boss'.y = boss.y
       /\ \A e \in EnemyIds :
            /\ enemy'[e].x = enemy[e].x /\ enemy'[e].y = enemy[e].y
            /\ enemy'[e].vx = enemy[e].vx /\ enemy'[e].vy = enemy[e].vy
            /\ enemy'[e].health = enemy[e].health]_vars

(***************************************************************************)
(* C30.  The grass tier never goes stale.  Every step that changes the     *)
(* curse level's value leaves needs_change set; a reconciliation step      *)
(* leaves it clear and, when it found it set, the tier recomputed from the *)
(* value; so whenever needs_change is clear the tier shown is the tier of  *)
(* the current value (0 for 0, 1 for 1, 2 for 2..6, 3 from 7 on); and      *)
(* needs_change set leads to needs_change clear.                           *)
(***************************************************************************)
C30_TierNeverStale ==
  /\ [](~curse_level.needs_change => tier = TierOf(curse_level.value))
  /\ [][/\ curse_level'.value # curse_level.value =>
             curse_level'.needs_change
        /\ ReconcileStep =>
             /\ ~curse_level'.needs_change
             /\ curse_level.needs_change =>
                  tier' = TierOf(curse_level.value)]_vars
  /\ (curse_level.needs_change ~> ~curse_level.needs_change)

\* Two changes of the value later (the pickup, then a kill) the flag is
\* clear again and the grass shows tier 2.
C30_Witness ==
  /\ curse_level.value = 2
  /\ ~curse_level.needs_change
  /\ tier = 2
  /\ pc = "frame"

(***************************************************************************)
(* Vocabulary of the bullet lifetime property.                             *)
(***************************************************************************)
FlightStep == pc = "update_bullets" /\ pc' = "handle_collisions"

CollisionStep == pc = "handle_collisions" /\ pc' = "fixed_apply"

FixedApplyStep == pc = "fixed_apply" /\ pc' # "fixed_apply"

\* Bullet i, in the collision phase about to run, neither expires nor
\* overlaps a platform, an enemy or the boss.
Quiet(i) ==
  /\ bullets[i].despawn_timer.elapsed + FixedDtMs < 700
  /\ ~HitsPlatform(bullets[i])
  /\ \A e \in EnemyIds : ~(enemy[e].exists /\ HitsEnemy(enemy[e], bullets[i]))
  /\ ~(boss.exists /\ HitsBoss(boss, bullets[i]))

Condemned == {i \in DOMAIN bullets : CountIn(commands, Despawn("bullet", i)) > 0}

\* No bullet older than its lifetime is alive once a tick's commands are
\* applied.
YoungBullets ==
  pc # "fixed_apply" =>
    \A i \in DOMAIN bullets : bullets[i].despawn_timer.elapsed < 700

(***************************************************************************)
(* C31.  Every bullet is gone by the end of the fixed tick in which its    *)
(* lifetime reaches 0.7 s: outside the window between the collision phase  *)
(* and the application of its commands no live bullet has a lifetime of    *)
(* 0.7 s, and the commands applied remove every bullet whose despawn is    *)
(* queued.  A bullet that neither expires nor overlaps anything has no     *)
(* despawn queued and leaves the tick as it entered it, but for its        *)
(* position, moved by its velocity, and its lifetime, grown by the step.   *)
(***************************************************************************)
C31_BulletLifetime ==
  /\ []YoungBullets
  /\ [][/\ FlightStep =>
             \A i \in DOMAIN bullets :
               bullets'[i] = [bullets[i] EXCEPT
                                !.x = @ + (bullets[i].vx * FixedDtMs) \div 1000]
        /\ CollisionStep =>
             \A i \in DOMAIN bullets :
               Quiet(i) =>
                 /\ bullets'[i] = [bullets[i] EXCEPT
                                     !.despawn_timer.elapsed = @ + FixedDtMs]
                 /\ CountIn(commands', Despawn("bullet", i)) = 0
        /\ FixedApplyStep =>
             /\ Len(bullets') = Len(bullets) - Cardinality(Condemned)
                                  + BulletsQueued
             /\ \A i \in DOMAIN bullets \ Condemned :
                  \E j \in DOMAIN bullets' : bullets'[j] = bullets[i]]_vars

\* A bullet has flown two ticks without meeting anything and is still
\* there, 500 ms old.
C31_Witness ==
  /\ pc = "update"
  /\ \E i \in DOMAIN bullets :
       /\ bullets[i].despawn_timer.elapsed = 2 * FixedDtMs
       /\ ~bullets[i].despawn_timer.finished
       /\ ~HitsPlatform(bullets[i])
       /\ bullets[i].x = player.x + 40 + 2 * ((1000 * FixedDtMs) \div 1000)

(***************************************************************************)
(* C32.  An enemy more than 1500 from the player horizontally takes no     *)
(* action in the AI step: its horizontal intent (0 or not), its facing,    *)
(* its cooldown and all the rest of it are as they were, and every bomb    *)
(* queued by the step comes from an enemy within 1500.                     *)
(***************************************************************************)
C32_IdleBeyondAggro ==
  [][AiStep =>
       /\ \A e \in EnemyIds :
            (enemy[e].exists /\ Abs(Dx(e)) > 1500) => enemy'[e] = enemy[e]
       /\ \A k \in DOMAIN NewCommands :
            \E e \in EnemyIds :
              /\ enemy[e].exists /\ Abs(Dx(e)) <= 1500
              /\ NewCommands[k].garlic.x = enemy[e].x
       /\ (\A e \in EnemyIds : enemy[e].exists => Abs(Dx(e)) > 1500) =>
            commands' = commands]_vars

\* After the AI step of the first frame: one enemy, 1575 to the left, is
\* still walking right as it was, and the other, 1575 to the right, still
\* faces right, away from the player.
C32_Witness ==
  /\ pc = "update"
  /\ "update_enemies" \notin todo
  /\ frames = 1
  /\ enemy[2].exists /\ Dx(2) = 1575 /\ enemy[2].horizontal = 1
  /\ enemy[1].exists /\ Dx(1) = -1575 /\ enemy[1].facing_right
  /\ \A k \in DOMAIN commands : commands[k].op # "spawn_garlic"

(***************************************************************************)
(* C33.  No bullet before the pickup.  While the gun is not enabled its    *)
(* shooting flag is false, no bullet is alive or queued, and the curse     *)
(* level is 0 with needs_change clear; and a step that ends with the gun   *)
(* not enabled changes the health of no enemy and not of the boss.         *)
(***************************************************************************)
C33_NoBulletBeforePickup ==
  /\ [](~gun.enabled =>
          /\ ~gun.shooting
          /\ bullets = <<>>
          /\ BulletsQueued = 0
          /\ curse_level = [value |-> 0, needs_change |-> FALSE])
  /\ [][~gun'.enabled =>
          /\ \A e \in EnemyIds : enemy'[e].health = enemy[e].health
          /\ boss'.health = boss.health]_vars

\* The mouse button went down in a frame without the gun: the input and
\* the shoot steps have both run and nothing was fired.
C33_Witness ==
  /\ ~gun.enabled
  /\ input.mouse = "just"
  /\ pc = "update"
  /\ "record_shooting_input" \notin todo
  /\ "shoot" \notin todo
  /\ ~gun.shooting
  /\ BulletsQueued = 0

\* The frame's run of shoot, and the bullets it queues.
ShootStep == pc = "update" /\ "shoot" \in todo /\ "shoot" \notin todo'

Fired == Len(SelectSeq(NewCommands, LAMBDA c : c.op = "spawn_bullet"))

\* The cooldown completes in the tick this run of shoot gives it.
CooldownEnds ==
  gun.shooting_cooldown.elapsed + time_delta >= gun.shooting_cooldown.duration

(***************************************************************************)
(* C34.  The cooldown limits the fire rate.  A run of shoot queues at most *)
(* one bullet; it queues one only for a gun that is shooting and either    *)
(* can shoot or has its cooldown completing in this run, and leaves        *)
(* can_shoot false; while can_shoot is false and the cooldown does not     *)
(* complete it queues none and can_shoot stays false; can_shoot comes back *)
(* only in a run of shoot in which the cooldown completes; nothing else    *)
(* writes can_shoot.  This holds for the 0.8 s and for the 0.1 s cooldown. *)
(***************************************************************************)
C34_CooldownLimitsFire ==
  [][/\ ShootStep =>
          /\ Fired \in {0, 1}
          /\ Fired = 1 =>
                /\ gun.shooting
                /\ gun.can_shoot \/ CooldownEnds
                /\ ~gun'.can_shoot
          /\ (~gun.can_shoot /\ ~CooldownEnds) =>
                (Fired = 0 /\ ~gun'.can_shoot)
          /\ (~gun.can_shoot /\ gun'.can_shoot) =>
                (CooldownEnds /\ ~gun.shooting)
     /\ ~ShootStep => gun'.can_shoot = gun.can_shoot]_vars

\* Hold-to-fire: the button is held, the gun had fired before, and this
\* frame's run of shoot has queued the next bullet as the 0.1 s cooldown
\* completed.
C34_Witness ==
  /\ pc = "update"
  /\ "shoot" \notin todo
  /\ "record_shooting_input" \notin todo
  /\ input.mouse = "held"
  /\ gun.shooting_cooldown.duration = FastCooldownMs
  /\ gun.shooting_cooldown.just_finished
  /\ ~gun.can_shoot
  /\ gun.shooting
  /\ BulletsQueued = 1

(***************************************************************************)
(* C35.  As claimed: a jump always lifts the player.  A movement           *)
(* integration that the player enters with the jump just accepted          *)
(* (airborne, velocity.y = jump_force * 3) leaves velocity.y =             *)
(* jump_force * 3 - gravity, which is upward, and the player higher than   *)
(* before.                                                                 *)
(***************************************************************************)
C35_JumpLifts ==
  [][(/\ IntegrationStep
      /\ ~player.grounded
      /\ player.vy = JumpForce * JumpBoost) =>
       /\ player'.vy = JumpForce * JumpBoost - Gravity
       /\ player'.vy > 0
       /\ player'.y > player.y]_vars

====
